---------------------------- MODULE Spec2Model ----------------------------
(***************************************************************************)
(* A model of the credibility scoring core of the fake news detector:      *)
(* backend/app/scoring.py (CredibilityScorer), backend/app/config.py (the  *)
(* scoring weights) and backend/app/nlp_engine.py / nlp_engine_mock.py     *)
(* (sentence analysis).                                                    *)
(*                                                                         *)
(* Numbers.  Python floats are modelled as exact rationals <<n, d>> in     *)
(* lowest terms with d > 0, without the binary rounding error of float     *)
(* arithmetic (of the order of 1e-16).  The mean of the fact-check scores, *)
(* where the order of the additions shows in the last bit, is modelled a   *)
(* second time in IEEE 754 doubles.                                        *)
(*                                                                         *)
(* Strings.  A Python str is modelled as a sequence of one-character       *)
(* strings, so that lower(), strip(), startswith() and slicing are         *)
(* computed character by character.                                        *)
(***************************************************************************)
EXTENDS Integers, Sequences, FiniteSets, TLC

(***************************************************************************)
(* Rational arithmetic                                                     *)
(***************************************************************************)
Abs(x) == IF x < 0 THEN -x ELSE x

RECURSIVE Gcd(_, _)
Gcd(a, b) == IF b = 0 THEN a ELSE Gcd(b, a % b)

\* The rational n/d (d # 0) in lowest terms with a positive denominator.
Rat(n, d) ==
    LET g == Gcd(Abs(n), Abs(d))
        s == IF d < 0 THEN -1 ELSE 1
    IN  <<(s * n) \div g, (s * d) \div g>>

RAdd(x, y) == Rat(x[1] * y[2] + y[1] * x[2], x[2] * y[2])
RSub(x, y) == Rat(x[1] * y[2] - y[1] * x[2], x[2] * y[2])
RMul(x, y) == Rat(x[1] * y[1], x[2] * y[2])
RDiv(x, y) == Rat(x[1] * y[2], x[2] * y[1])
RLe(x, y)  == x[1] * y[2] <= y[1] * x[2]
RLt(x, y)  == x[1] * y[2] < y[1] * x[2]
RAbs(x)    == <<Abs(x[1]), x[2]>>
RInt(n)    == <<n, 1>>
RMin(x, y) == IF RLe(x, y) THEN x ELSE y
RMax(x, y) == IF RLe(x, y) THEN y ELSE x

RECURSIVE RSum(_)
RSum(s) == IF s = <<>> THEN RInt(0) ELSE RAdd(Head(s), RSum(Tail(s)))

\* round(x, 1): the nearest multiple of 1/10, a tie going to the even tenth.
Round1(x) ==
    LET n == x[1] * 10
        q == n \div x[2]
        r == n % x[2]
        t == IF 2 * r > x[2] THEN q + 1
             ELSE IF 2 * r < x[2] THEN q
             ELSE IF q % 2 = 0 THEN q ELSE q + 1
    IN  Rat(t, 10)

(***************************************************************************)
(* Strings as sequences of characters                                      *)
(***************************************************************************)
UpperChars == <<"A","B","C","D","E","F","G","H","I","J","K","L","M",
                "N","O","P","Q","R","S","T","U","V","W","X","Y","Z">>
LowerChars == <<"a","b","c","d","e","f","g","h","i","j","k","l","m",
                "n","o","p","q","r","s","t","u","v","w","x","y","z">>

LowerChar(c) ==
    IF \E i \in DOMAIN UpperChars : UpperChars[i] = c
    THEN LowerChars[CHOOSE i \in DOMAIN UpperChars : UpperChars[i] = c]
    ELSE c

UpperChar(c) ==
    IF \E i \in DOMAIN LowerChars : LowerChars[i] = c
    THEN UpperChars[CHOOSE i \in DOMAIN LowerChars : LowerChars[i] = c]
    ELSE c

\* str.lower()
RECURSIVE Lower(_)
Lower(s) == IF s = <<>> THEN <<>> ELSE <<LowerChar(Head(s))>> \o Lower(Tail(s))

\* Two characters outside ASCII, written by their code points: U+0149, the
\* small n preceded by an apostrophe, and U+02BC, the modifier apostrophe;
\* U+017F, the long s.  All three are unchanged by str.lower().
C_0149 == "U+0149"
C_02BC == "U+02BC"
C_017F == "U+017F"

\* The title-case form str.capitalize() gives a first character: one
\* character, or two for U+0149 (apostrophe and N)
TitleChar(c) ==
    IF c = C_0149 THEN <<C_02BC, "N">>
    ELSE IF c = C_017F THEN <<"S">>
    ELSE <<UpperChar(c)>>

\* str.capitalize(): first character title-cased, the rest lower-cased
Capitalize(s) == IF s = <<>> THEN <<>> ELSE TitleChar(Head(s)) \o Lower(Tail(s))

\* str.startswith(p)
StartsWith(s, p) == Len(s) >= Len(p) /\ SubSeq(s, 1, Len(p)) = p

\* s[k:] (k counted from 0)
SliceFrom(s, k) == SubSeq(s, k + 1, Len(s))

\* dict.get(k, default)
Get(d, k, default) == IF k \in DOMAIN d THEN d[k] ELSE default

\* Python's None where a string is expected: distinct from every string,
\* whose elements are single characters.
None == <<"None">>

\* Python's None where a number is expected: distinct from every rational,
\* whose denominator is positive.
NoneNum == <<0, 0>>

\* The result of a call: a returned value or a raised exception.
Returned(v) == [raised |-> FALSE, value |-> v]
Raised(e)   == [raised |-> TRUE, exc |-> e]

(***************************************************************************)
(* String constants of scoring.py                                          *)
(***************************************************************************)
S_Real    == <<"R","e","a","l">>
S_Fake    == <<"F","a","k","e">>
S_Biased  == <<"B","i","a","s","e","d">>
S_Satire  == <<"S","a","t","i","r","e">>
S_Unknown == <<"U","n","k","n","o","w","n">>
S_www     == <<"w","w","w",".">>

VerdictsTrue ==
    { <<"t","r","u","e">>,
      <<"c","o","r","r","e","c","t">>,
      <<"a","c","c","u","r","a","t","e">>,
      <<"v","e","r","i","f","i","e","d">> }
VerdictsFalse ==
    { <<"f","a","l","s","e">>,
      <<"i","n","c","o","r","r","e","c","t">>,
      <<"f","a","b","r","i","c","a","t","e","d">>,
      <<"f","a","k","e">> }
VerdictsMisleading ==
    { <<"m","i","s","l","e","a","d","i","n","g">>,
      <<"p","a","r","t","l","y"," ","f","a","l","s","e">>,
      <<"m","i","x","t","u","r","e">> }
VerdictsUnproven ==
    { <<"u","n","p","r","o","v","e","n">>,
      <<"u","n","s","u","b","s","t","a","n","t","i","a","t","e","d">>,
      <<"r","e","s","e","a","r","c","h"," ","i","n"," ","p","r","o","g","r","e","s","s">> }

Half == Rat(1, 2)
One  == RInt(1)
Zero == RInt(0)

(***************************************************************************)
(* The state of the program                                                *)
(***************************************************************************)
VARIABLES
    weights,            \* CredibilityScorer.weights: weight name -> number
    domain_reputation,  \* CredibilityScorer.domain_reputation, as loaded
    last,               \* the last completed call: operation, arguments, outcome
    nupd,               \* number of update_weights calls made so far
    call                \* a scoring call in progress on another thread: its
                        \* position, its locals, and the weight sets that have
                        \* been current since it began

vars == <<weights, domain_reputation, last, nupd, call>>

(***************************************************************************)
(* scoring.py: the three signal scorers                                    *)
(***************************************************************************)
\* A faulty _calculate_model_score: Satire scored by its confidence, as Fake is
calculate_model_score_satire_as_fake(prediction) ==
    LET label      == Get(prediction, "label", S_Unknown)
        confidence == Get(prediction, "confidence", Zero)
    IN  IF label = S_Real THEN confidence
        ELSE IF label = S_Fake \/ label = S_Satire THEN RSub(One, confidence)
        ELSE IF label = S_Biased THEN Rat(4, 10)
        ELSE Half

\* A faulty _calculate_model_score: a label that is not recognised is scored
\* by its confidence, like Real
calculate_model_score_unknown_as_real(prediction) ==
    LET label      == Get(prediction, "label", S_Unknown)
        confidence == Get(prediction, "confidence", Zero)
    IN  IF label = S_Fake THEN RSub(One, confidence)
        ELSE IF label = S_Biased THEN Rat(4, 10)
        ELSE IF label = S_Satire THEN Rat(2, 10)
        ELSE confidence

\* A faulty _calculate_model_score: Fake scored by its confidence, as Real is
calculate_model_score_fake_as_real(prediction) ==
    LET label      == Get(prediction, "label", S_Unknown)
        confidence == Get(prediction, "confidence", Zero)
    IN  IF label = S_Real \/ label = S_Fake THEN confidence
        ELSE IF label = S_Biased THEN Rat(4, 10)
        ELSE IF label = S_Satire THEN Rat(2, 10)
        ELSE Half

\* CredibilityScorer._calculate_model_score
calculate_model_score(prediction) ==
    LET label      == Get(prediction, "label", S_Unknown)
        confidence == Get(prediction, "confidence", Zero)
    IN  IF label = S_Real THEN confidence
        ELSE IF label = S_Fake THEN RSub(One, confidence)
        ELSE IF label = S_Biased THEN Rat(4, 10)
        ELSE IF label = S_Satire THEN Rat(2, 10)
        ELSE Half

\* the per-result score of the loop body of _calculate_factcheck_score
verdict_score(result) ==
    LET verdict == Lower(Get(result, "verdict", <<>>))
    IN  IF verdict \in VerdictsTrue THEN One
        ELSE IF verdict \in VerdictsFalse THEN Zero
        ELSE IF verdict \in VerdictsMisleading THEN Rat(3, 10)
        ELSE IF verdict \in VerdictsUnproven THEN Rat(4, 10)
        ELSE Half

\* A faulty _calculate_factcheck_score: only the first result is looked at
\* for the mock flag
calculate_factcheck_score_first_mock(fact_check_results) ==
    IF fact_check_results = <<>> THEN Half
    ELSE IF Get(fact_check_results[1], "mock", FALSE) THEN Half
    ELSE LET verdict_scores ==
                 [i \in DOMAIN fact_check_results |-> verdict_score(fact_check_results[i])]
         IN  RDiv(RSum(verdict_scores), RInt(Len(verdict_scores)))

\* CredibilityScorer._calculate_factcheck_score
calculate_factcheck_score(fact_check_results) ==
    IF fact_check_results = <<>> THEN Half
    ELSE IF \E i \in DOMAIN fact_check_results :
                Get(fact_check_results[i], "mock", FALSE)
         THEN Half
    ELSE LET verdict_scores ==
                 [i \in DOMAIN fact_check_results |-> verdict_score(fact_check_results[i])]
         IN  IF verdict_scores # <<>>
             THEN RDiv(RSum(verdict_scores), RInt(Len(verdict_scores)))
             ELSE Half

\* The domain cleaning of _calculate_source_score: lower-case, strip one "www."
clean_domain(domain) ==
    LET d == Lower(domain)
    IN  IF StartsWith(d, S_www) THEN SliceFrom(d, 4) ELSE d

\* CredibilityScorer._calculate_source_score: the outcome (a value, or the
\* AttributeError of .get on a table that is not a dict)
calculate_source_score(domain) ==
    IF domain = None \/ domain = <<>> THEN Returned(Half)
    ELSE IF domain_reputation.kind # "dict" THEN Raised("AttributeError")
    ELSE LET reputation == Get(domain_reputation.map, clean_domain(domain), NoneNum)
         IN  IF reputation # NoneNum THEN Returned(reputation) ELSE Returned(Half)

\* "if domain" / "if not domain": None and the empty string are falsy
Truthy(domain) == domain # None /\ domain # <<>>

(***************************************************************************)
(* scoring.py: the fusion engine                                           *)
(***************************************************************************)
\* A faulty weighted combination: the sum clamped to the interval 0-100
weighted_combination_clamped(model_score, factcheck_score, source_score, w_model, w_factcheck, w_source) ==
    RMax(Zero, RMin(RInt(100),
        RMul(RAdd(RAdd(RMul(model_score, w_model),
                       RMul(factcheck_score, w_factcheck)),
                  RMul(source_score, w_source)),
             RInt(100))))

\* The weighted combination of calculate_credibility_score, scaled to 0-100
weighted_combination(model_score, factcheck_score, source_score, w_model, w_factcheck, w_source) ==
    RMul(RAdd(RAdd(RMul(model_score, w_model),
                   RMul(factcheck_score, w_factcheck)),
              RMul(source_score, w_source)),
         RInt(100))

\* A faulty calculate_credibility_score: source_reputation reports the
\* weighted contribution of the source score, not the score itself
calculate_credibility_score_weighted_source(model_prediction, fact_check_results, domain) ==
    LET model_score     == calculate_model_score(model_prediction)
        factcheck_score == calculate_factcheck_score(fact_check_results)
        source          == calculate_source_score(domain)
    IN  IF source.raised THEN source
        ELSE LET source_score == source.value
                 w_source == Get(weights, "source_reputation", Rat(2, 10))
                 credibility_score ==
                     weighted_combination(model_score, factcheck_score, source_score,
                         Get(weights, "model_confidence", Rat(5, 10)),
                         Get(weights, "fact_check_evidence", Rat(3, 10)),
                         w_source)
             IN  Returned([
                     credibility_score |-> Round1(credibility_score),
                     breakdown |-> [
                         model_score     |-> Round1(RMul(model_score, RInt(100))),
                         factcheck_score |-> Round1(RMul(factcheck_score, RInt(100))),
                         source_score    |-> Round1(RMul(source_score, RInt(100)))],
                     weights_used |-> "self.weights",
                     source_reputation |-> IF Truthy(domain)
                                           THEN RMul(source_score, w_source)
                                           ELSE NoneNum])

\* CredibilityScorer.calculate_credibility_score: the outcome of a call in
\* the current state.  weights_used is the scorer's own dict, not a copy.
calculate_credibility_score(model_prediction, fact_check_results, domain) ==
    LET model_score     == calculate_model_score(model_prediction)
        factcheck_score == calculate_factcheck_score(fact_check_results)
        source          == calculate_source_score(domain)
    IN  IF source.raised THEN source
        ELSE LET source_score == source.value
                 credibility_score ==
                     weighted_combination(model_score, factcheck_score, source_score,
                         Get(weights, "model_confidence", Rat(5, 10)),
                         Get(weights, "fact_check_evidence", Rat(3, 10)),
                         Get(weights, "source_reputation", Rat(2, 10)))
             IN  Returned([
                     credibility_score |-> Round1(credibility_score),
                     breakdown |-> [
                         model_score     |-> Round1(RMul(model_score, RInt(100))),
                         factcheck_score |-> Round1(RMul(factcheck_score, RInt(100))),
                         source_score    |-> Round1(RMul(source_score, RInt(100)))],
                     weights_used |-> "self.weights",
                     source_reputation |-> IF Truthy(domain) THEN source_score ELSE NoneNum])

\* sum(d.values())
RECURSIVE SumValues(_)
SumValues(d) ==
    IF DOMAIN d = {} THEN Zero
    ELSE LET k == CHOOSE x \in DOMAIN d : TRUE
         IN  RAdd(d[k], SumValues([j \in DOMAIN d \ {k} |-> d[j]]))

\* dict.update: the entries of new replace or extend those of old
DictUpdate(old, new) ==
    [k \in DOMAIN old \cup DOMAIN new |-> IF k \in DOMAIN new THEN new[k] ELSE old[k]]

\* A faulty update_weights: the merged weights, not the new entries, are
\* brought to sum 1
update_weights_normalise_merged(new_weights) ==
    LET merged == DictUpdate(weights, new_weights)
        total  == SumValues(merged)
    IN  IF RLt(Rat(1, 100), RAbs(RSub(total, One)))
        THEN IF total = Zero
             THEN Raised("ZeroDivisionError")
             ELSE Returned([k \in DOMAIN merged |-> RDiv(merged[k], total)])
        ELSE Returned(merged)

\* CredibilityScorer.update_weights: the outcome is the new value of
\* self.weights, or the ZeroDivisionError of v/total raised before any merge
update_weights(new_weights) ==
    LET total == SumValues(new_weights)
    IN  IF RLt(Rat(1, 100), RAbs(RSub(total, One)))
        THEN IF total = Zero /\ DOMAIN new_weights # {}
             THEN Raised("ZeroDivisionError")
             ELSE Returned(DictUpdate(weights,
                      [k \in DOMAIN new_weights |-> RDiv(new_weights[k], total)]))
        ELSE Returned(DictUpdate(weights, new_weights))

\* A faulty _load_domain_reputation: the exception of an unreadable file is
\* swallowed without a table being returned
load_domain_reputation_none_on_error(file) ==
    IF file.kind = "json" THEN file.value
    ELSE IF file.kind = "unreadable" THEN [kind |-> "none"]
    ELSE [kind |-> "dict", map |-> <<>>]

\* CredibilityScorer._load_domain_reputation: a missing file, and any
\* exception of open or json.load, give {}; otherwise whatever json.load
\* returns, a JSON object or not
load_domain_reputation(file) ==
    IF file.kind = "json" THEN file.value ELSE [kind |-> "dict", map |-> <<>>]

(***************************************************************************)
(* config.py: the scoring weights                                          *)
(***************************************************************************)
WeightKeys == {"model_confidence", "fact_check_evidence", "source_reputation"}

\* Config._load_config, lines 41-46, with no environment variable and no
\* file entry set
DefaultWeights ==
    [model_confidence |-> Rat(5, 10), fact_check_evidence |-> Rat(3, 10),
     source_reputation |-> Rat(2, 10)]

(***************************************************************************)
(* Bounds and input sets                                                   *)
(***************************************************************************)
MaxUpdates == 2     \* update_weights calls in a behaviour
MaxResults == 3     \* length of a fact-check result list

D_example        == <<"e","x","a","m","p","l","e",".","c","o","m">>
D_www_Example    == <<"w","w","w",".","E","x","a","m","p","l","e",".","c","o","m">>
D_WWW_EXAMPLE    == <<"W","W","W",".","E","X","A","M","P","L","E",".","C","O","M">>
D_www_www        == <<"w","w","w",".","w","w","w",".","e","x","a","m","p","l","e",".","c","o","m">>
D_www_example    == <<"w","w","w",".","e","x","a","m","p","l","e",".","c","o","m">>
D_fake_news      == <<"f","a","k","e",".","n","e","w","s">>
D_unknown_org    == <<"u","n","k","n","o","w","n",".","o","r","g">>

Domains == {None, <<>>, D_example, D_www_Example, D_WWW_EXAMPLE, D_www_www,
            D_fake_news, D_unknown_org, S_www}

\* A reputation table: its keys are taken as they stand in the file
SampleTable ==
    (D_example :> One) @@ (D_www_example :> Rat(3, 10)) @@ (D_fake_news :> Zero)

\* The reputation file: absent, unreadable, not JSON, or JSON holding an
\* object or some other JSON value (here an array)
ReputationFiles ==
    { [kind |-> "missing"], [kind |-> "unreadable"], [kind |-> "malformed"],
      [kind |-> "json", value |-> [kind |-> "dict", map |-> <<>>]],
      [kind |-> "json", value |-> [kind |-> "dict", map |-> SampleTable]],
      [kind |-> "json", value |-> [kind |-> "list"]] }

Confidences == {Zero, Rat(1, 4), Rat(9, 10), One}

L_real    == <<"r","e","a","l">>
L_Neutral == <<"N","e","u","t","r","a","l">>
L_Label_0 == <<"L","a","b","e","l","_","0">>

Labels == {S_Real, S_Fake, S_Biased, S_Satire, S_Unknown, L_real, L_Neutral, L_Label_0}

\* Model predictions: label and confidence, either of which may be missing
Predictions ==
    [label : Labels, confidence : Confidences]
    \cup [label : {S_Real, S_Fake, S_Satire}]
    \cup [confidence : Confidences]

V_True        == <<"T","r","u","e">>
V_FALSE       == <<"F","A","L","S","E">>
V_Misleading  == <<"M","i","s","l","e","a","d","i","n","g">>
V_PartlyFalse == <<"P","a","r","t","l","y"," ","F","a","l","s","e">>
V_Unproven    == <<"U","n","p","r","o","v","e","n">>
V_MostlyTrue  == <<"M","o","s","t","l","y"," ","t","r","u","e">>
V_ApiKey      == <<"A","P","I"," ","k","e","y"," ","r","e","q","u","i","r","e","d">>

\* Fact-check results: the verdict and the mock flag, either may be missing
FactCheckResults ==
    [verdict : {V_True, V_FALSE, V_Misleading, V_Unproven, V_MostlyTrue}]
    \cup [verdict : {V_PartlyFalse, V_True}, mock : {FALSE}]
    \cup [verdict : {V_ApiKey}, mock : {TRUE}]
    \cup [mock : {FALSE}]

RECURSIVE SeqsUpTo(_, _)
SeqsUpTo(S, n) ==
    IF n = 0 THEN {<<>>}
    ELSE LET shorter == SeqsUpTo(S, n - 1)
         IN  shorter \cup {Append(s, x) : s \in {t \in shorter : Len(t) = n - 1}, x \in S}

FactCheckLists == SeqsUpTo(FactCheckResults, MaxResults)

WeightValues == {Zero, Half, Rat(201, 200), RInt(2)}

\* The arguments of update_weights: every dict over the three weight names
WeightUpdates ==
    UNION {[ks -> WeightValues] : ks \in SUBSET WeightKeys}

\* The inputs of the fusion engine in the specification of the whole scorer
SamplePredictions ==
    { [label |-> S_Fake, confidence |-> Rat(9, 10)],
      [label |-> S_Real, confidence |-> One],
      [label |-> S_Real, confidence |-> Rat(1, 4)],
      [label |-> S_Unknown, confidence |-> Zero],
      [confidence |-> Rat(9, 10)] }

SampleFactChecks ==
    { <<>>,
      <<[verdict |-> V_ApiKey, mock |-> TRUE]>>,
      <<[verdict |-> V_True]>>,
      <<[verdict |-> V_FALSE], [verdict |-> V_FALSE, mock |-> FALSE]>>,
      <<[mock |-> FALSE], [verdict |-> V_MostlyTrue]>> }

SampleDomains == {None, D_www_Example, D_fake_news, D_unknown_org}

SampleUpdates ==
    { [k \in {} |-> Zero],
      [model_confidence |-> RInt(2), fact_check_evidence |-> RInt(2)],
      [model_confidence |-> Rat(201, 200)],
      [model_confidence |-> Zero, fact_check_evidence |-> Zero],
      [model_confidence |-> Half, fact_check_evidence |-> Half, source_reputation |-> RInt(2)],
      [source_reputation |-> Half] }

(***************************************************************************)
(* The scorer: construction, scoring and weight updates                    *)
(***************************************************************************)
NoCall == [op |-> "none"]
Idle   == [pc |-> "idle"]

\* CredibilityScorer.__init__ with the weights of the default configuration
Init ==
    /\ weights = DefaultWeights
    /\ \E file \in ReputationFiles : domain_reputation = load_domain_reputation(file)
    /\ last = NoCall
    /\ nupd = 0
    /\ call = Idle

\* A faulty scoring call: a domain the table does not hold is entered into
\* it with the neutral reputation
CalculateCachingDomain(model_prediction, fact_check_results, domain) ==
    /\ last' = [op |-> "calculate_credibility_score",
                model_prediction |-> model_prediction,
                fact_check_results |-> fact_check_results,
                domain |-> domain,
                outcome |-> calculate_credibility_score(
                                model_prediction, fact_check_results, domain)]
    /\ domain_reputation' =
           IF /\ Truthy(domain)
              /\ domain_reputation.kind = "dict"
              /\ clean_domain(domain) \notin DOMAIN domain_reputation.map
           THEN [domain_reputation EXCEPT
                    !.map = (clean_domain(domain) :> Half) @@ domain_reputation.map]
           ELSE domain_reputation
    /\ UNCHANGED <<weights, nupd, call>>

\* A call of calculate_credibility_score
Calculate(model_prediction, fact_check_results, domain) ==
    /\ last' = [op |-> "calculate_credibility_score",
                model_prediction |-> model_prediction,
                fact_check_results |-> fact_check_results,
                domain |-> domain,
                outcome |-> calculate_credibility_score(
                                model_prediction, fact_check_results, domain)]
    /\ UNCHANGED <<weights, domain_reputation, nupd, call>>

\* A faulty call of update_weights: the new entries are merged before they
\* are normalised, so a failed call leaves them behind
UpdateWeightsMergeFirst(new_weights) ==
    /\ nupd < MaxUpdates
    /\ LET outcome == update_weights(new_weights)
       IN  /\ weights' = IF outcome.raised THEN DictUpdate(weights, new_weights)
                         ELSE outcome.value
           /\ last' = [op |-> "update_weights", new_weights |-> new_weights,
                       before |-> weights, raised |-> outcome.raised]
    /\ nupd' = nupd + 1
    /\ call' = call
    /\ UNCHANGED domain_reputation

\* A call of update_weights
UpdateWeights(new_weights) ==
    /\ nupd < MaxUpdates
    /\ LET outcome == update_weights(new_weights)
       IN  /\ weights' = IF outcome.raised THEN weights ELSE outcome.value
           /\ last' = [op |-> "update_weights", new_weights |-> new_weights,
                       before |-> weights, raised |-> outcome.raised]
    /\ nupd' = nupd + 1
    /\ call' = IF "seen" \in DOMAIN call /\ call.pc # "done"
                THEN [seen |-> call.seen \cup {weights'}] @@ call
                ELSE call
    /\ UNCHANGED domain_reputation

Next ==
    \/ \E p \in SamplePredictions, f \in SampleFactChecks, d \in SampleDomains :
           Calculate(p, f, d)
    \/ \E nw \in SampleUpdates : UpdateWeights(nw)

Spec == Init /\ [][Next]_vars

(***************************************************************************)
(* The weight updates alone, over every dict of WeightUpdates              *)
(***************************************************************************)
NextWeights == \E nw \in WeightUpdates : UpdateWeights(nw)

InitWeights == Init /\ domain_reputation = load_domain_reputation([kind |-> "missing"])

SpecWeights == InitWeights /\ [][NextWeights]_vars

(***************************************************************************)
(* The weight updates over entries of either sign, so that entries that    *)
(* are not all zero can sum to zero                                        *)
(***************************************************************************)
SignedWeightValues == {Rat(-1, 2), Zero, Half, RInt(2)}

SignedWeightUpdates ==
    UNION {[ks -> SignedWeightValues] : ks \in SUBSET WeightKeys}

NextSignedWeights == \E nw \in SignedWeightUpdates : UpdateWeights(nw)

SpecSignedWeights == InitWeights /\ [][NextSignedWeights]_vars

(***************************************************************************)
(* The three signal scorers, each applied once to every input of the input *)
(* sets by a freshly constructed scorer (they read no state but the table) *)
(***************************************************************************)
ModelScore(prediction) ==
    /\ last = NoCall
    /\ last' = [op |-> "_calculate_model_score", prediction |-> prediction,
                ret |-> calculate_model_score(prediction)]
    /\ UNCHANGED <<weights, domain_reputation, nupd, call>>

FactcheckScore(fact_check_results) ==
    /\ last = NoCall
    /\ last' = [op |-> "_calculate_factcheck_score",
                fact_check_results |-> fact_check_results,
                ret |-> calculate_factcheck_score(fact_check_results)]
    /\ UNCHANGED <<weights, domain_reputation, nupd, call>>

SourceScore(domain) ==
    /\ last = NoCall
    /\ last' = [op |-> "_calculate_source_score", domain |-> domain,
                outcome |-> calculate_source_score(domain)]
    /\ UNCHANGED <<weights, domain_reputation, nupd, call>>

NextScorers ==
    \/ \E p \in Predictions : ModelScore(p)
    \/ \E f \in FactCheckLists : FactcheckScore(f)
    \/ \E d \in Domains : SourceScore(d)

SpecScorers == Init /\ [][NextScorers]_vars

(***************************************************************************)
(* One scoring call racing with weight updates.  The interpreter may       *)
(* switch threads between any two bytecodes, so the three reads of         *)
(* self.weights (lines 60-62) are separate steps; dict.update (line 161)   *)
(* is a single call into the interpreter and is one step.                  *)
(***************************************************************************)
\* lines 50-56: the three sub-scores
Begin(model_prediction, fact_check_results, domain) ==
    /\ call = Idle
    /\ LET source == calculate_source_score(domain)
       IN  call' = IF source.raised
                   THEN [pc |-> "raise", exc |-> source.exc]
                   ELSE [pc |-> "read_model",
                         domain |-> domain,
                         model_score |-> calculate_model_score(model_prediction),
                         factcheck_score |-> calculate_factcheck_score(fact_check_results),
                         source_score |-> source.value,
                         seen |-> {weights}]
    /\ UNCHANGED <<weights, domain_reputation, last, nupd>>

\* line 60: self.weights.get('model_confidence', 0.5)
ReadModelWeight ==
    /\ call.pc = "read_model"
    /\ call' = [pc |-> "read_factcheck",
                w_model |-> Get(weights, "model_confidence", Rat(5, 10))] @@ call
    /\ UNCHANGED <<weights, domain_reputation, last, nupd>>

\* line 61: self.weights.get('fact_check_evidence', 0.3)
ReadFactcheckWeight ==
    /\ call.pc = "read_factcheck"
    /\ call' = [pc |-> "read_source",
                w_factcheck |-> Get(weights, "fact_check_evidence", Rat(3, 10))] @@ call
    /\ UNCHANGED <<weights, domain_reputation, last, nupd>>

\* line 62: self.weights.get('source_reputation', 0.2)
ReadSourceWeight ==
    /\ call.pc = "read_source"
    /\ call' = [pc |-> "return",
                w_source |-> Get(weights, "source_reputation", Rat(2, 10))] @@ call
    /\ UNCHANGED <<weights, domain_reputation, last, nupd>>

\* lines 63-74: the result
Return ==
    /\ call.pc = "return"
    /\ call' = [pc |-> "done"] @@ call
    /\ last' = [op |-> "calculate_credibility_score (threaded)",
                outcome |-> Returned([
                    credibility_score |->
                        Round1(weighted_combination(
                            call.model_score, call.factcheck_score, call.source_score,
                            call.w_model, call.w_factcheck, call.w_source)),
                    breakdown |-> [
                        model_score     |-> Round1(RMul(call.model_score, RInt(100))),
                        factcheck_score |-> Round1(RMul(call.factcheck_score, RInt(100))),
                        source_score    |-> Round1(RMul(call.source_score, RInt(100)))],
                    weights_used |-> "self.weights",
                    source_reputation |->
                        IF Truthy(call.domain) THEN call.source_score ELSE NoneNum])]
    /\ UNCHANGED <<weights, domain_reputation, nupd>>

\* the exception of the source lookup leaves the call
RaiseFromCall ==
    /\ call.pc = "raise"
    /\ call' = [pc |-> "done"] @@ call
    /\ last' = [op |-> "calculate_credibility_score (threaded)",
                outcome |-> Raised(call.exc)]
    /\ UNCHANGED <<weights, domain_reputation, nupd>>

NextConcurrent ==
    \/ \E p \in SamplePredictions, f \in SampleFactChecks, d \in SampleDomains :
           Begin(p, f, d)
    \/ ReadModelWeight
    \/ ReadFactcheckWeight
    \/ ReadSourceWeight
    \/ Return
    \/ RaiseFromCall
    \/ \E nw \in SampleUpdates : UpdateWeights(nw)

SpecConcurrent == Init /\ [][NextConcurrent]_vars

(***************************************************************************)
(* Constructing a scorer from a reputation file, and looking domains up    *)
(***************************************************************************)
MaxLookups == 2     \* lookups followed after a construction

\* CredibilityScorer.__init__ with the configured weights
Construct(file) ==
    /\ weights' = DefaultWeights
    /\ domain_reputation' = load_domain_reputation(file)
    /\ last' = [op |-> "__init__", file |-> file, lookups |-> 0]
    /\ UNCHANGED <<nupd, call>>

\* _calculate_source_score on the scorer constructed last
Lookup(domain) ==
    /\ last.op \in {"__init__", "lookup"}
    /\ last.lookups < MaxLookups
    /\ last' = [op |-> "lookup", file |-> last.file, lookups |-> last.lookups + 1,
                domain |-> domain, outcome |-> calculate_source_score(domain)]
    /\ UNCHANGED <<weights, domain_reputation, nupd, call>>

NextLoad ==
    \/ \E file \in ReputationFiles : Construct(file)
    \/ \E domain \in Domains : Lookup(domain)

SpecLoad == Init /\ [][NextLoad]_vars

(***************************************************************************)
(* Python floats as IEEE 754 doubles                                       *)
(*                                                                         *)
(* The scorers above compute with exact fractions.  Where the order of     *)
(* float additions matters the double itself is modelled: [neg, m] is the  *)
(* value (-1)^neg * m * 2^-60, with m a natural number of three limbs      *)
(* <<l2, l1, l0>> = l2 * 2^48 + l1 * 2^24 + l0.  Every double between 2^-7 *)
(* and 2^4 is such a value with m of at most 53 significant bits.          *)
(***************************************************************************)
LimbBase == 2^24

BigZero == <<0, 0, 0>>

BigAdd(a, b) ==
    LET s0 == a[3] + b[3]
        s1 == a[2] + b[2] + (s0 \div LimbBase)
        s2 == a[1] + b[1] + (s1 \div LimbBase)
    IN  <<s2, s1 % LimbBase, s0 % LimbBase>>

\* a - b, for a >= b
BigSub(a, b) ==
    LET d0 == a[3] - b[3]
        borrow0 == IF d0 < 0 THEN 1 ELSE 0
        d1 == a[2] - b[2] - borrow0
        borrow1 == IF d1 < 0 THEN 1 ELSE 0
    IN  <<a[1] - b[1] - borrow1, d1 + borrow1 * LimbBase, d0 + borrow0 * LimbBase>>

BigLess(a, b) ==
    \/ a[1] < b[1]
    \/ a[1] = b[1] /\ a[2] < b[2]
    \/ a[1] = b[1] /\ a[2] = b[2] /\ a[3] < b[3]

\* Quotient and remainder of a by a small natural number d
BigDivSmall(a, d) ==
    LET c1 == (a[1] % d) * LimbBase + a[2]
        c0 == (c1 % d) * LimbBase + a[3]
    IN  [quot |-> <<a[1] \div d, c1 \div d, c0 \div d>>, rem |-> c0 % d]

\* The number of bits of a limb
BitLen(x) == IF x = 0 THEN 0 ELSE CHOOSE k \in 1..24 : 2^(k - 1) <= x /\ x < 2^k

BigBitLength(a) ==
    IF a[1] > 0 THEN 48 + BitLen(a[1])
    ELSE IF a[2] > 0 THEN 24 + BitLen(a[2])
    ELSE BitLen(a[3])

\* Round m (plus a fraction below the last bit, when sticky) to 53
\* significant bits, to nearest and ties to even: the rounding of every
\* double operation.  A number of at most 53 bits is a double already (the
\* inexact quotients of this model all have more).
RoundToDouble(m, sticky) ==
    LET bits == BigBitLength(m)
    IN  IF bits <= 53 THEN m
        ELSE LET q    == 2^(bits - 53)
                 r    == m[3] % q
                 down == <<m[1], m[2], m[3] - r>>
                 odd  == (m[3] \div q) % 2 = 1
                 up   == r * 2 > q \/ (r * 2 = q /\ (sticky \/ odd))
             IN  IF up THEN BigAdd(down, <<0, 0, q>>) ELSE down

MakeDouble(neg, m) == [neg |-> neg /\ m # BigZero, m |-> m]

DoubleZero == MakeDouble(FALSE, BigZero)

\* a + b of two floats
FAdd(a, b) ==
    IF a.neg = b.neg THEN MakeDouble(a.neg, RoundToDouble(BigAdd(a.m, b.m), FALSE))
    ELSE IF BigLess(a.m, b.m)
         THEN MakeDouble(b.neg, RoundToDouble(BigSub(b.m, a.m), FALSE))
         ELSE MakeDouble(a.neg, RoundToDouble(BigSub(a.m, b.m), FALSE))

\* a - b of two floats
FSub(a, b) == FAdd(a, MakeDouble(~b.neg, b.m))

\* a / n of a float and a small positive int
FDivInt(a, n) ==
    LET d == BigDivSmall(a.m, n)
    IN  MakeDouble(a.neg, RoundToDouble(d.quot, d.rem # 0))

\* The float a decimal literal denotes: the double nearest to the fraction
\* r = <<n, d>>, r >= 0
ToDouble(r) == FDivInt(MakeDouble(FALSE, <<r[1] * 2^12, 0, 0>>), r[2])

\* sum() of floats up to CPython 3.11: the items are added from left to
\* right, every addition rounded
RECURSIVE sum_left_to_right(_)
sum_left_to_right(scores) ==
    IF scores = <<>> THEN DoubleZero
    ELSE FAdd(sum_left_to_right(SubSeq(scores, 1, Len(scores) - 1)),
              scores[Len(scores)])

\* sum() of floats from CPython 3.12 on: Neumaier's compensated summation,
\* the rounding errors are collected in c and added at the end
RECURSIVE sum_compensated_loop(_, _, _, _)
sum_compensated_loop(scores, i, f_result, c) ==
    IF i > Len(scores)
    THEN IF c.m # BigZero THEN FAdd(f_result, c) ELSE f_result
    ELSE LET x == scores[i]
             t == FAdd(f_result, x)
         IN  sum_compensated_loop(scores, i + 1, t,
                 IF ~BigLess(f_result.m, x.m)
                 THEN FAdd(c, FAdd(FSub(f_result, t), x))
                 ELSE FAdd(c, FAdd(FSub(x, t), f_result)))

\* The interpreters the code may run on, by their sum()
SumBuilds == {"left_to_right", "compensated"}

builtin_sum(scores, build) ==
    IF build = "compensated"
    THEN sum_compensated_loop(scores, 1, DoubleZero, DoubleZero)
    ELSE sum_left_to_right(scores)

\* CredibilityScorer._calculate_factcheck_score, in doubles
calculate_factcheck_score_double(fact_check_results, build) ==
    IF fact_check_results = <<>> THEN ToDouble(Half)
    ELSE IF \E i \in DOMAIN fact_check_results :
                Get(fact_check_results[i], "mock", FALSE)
         THEN ToDouble(Half)
    ELSE LET verdict_scores ==
                 [i \in DOMAIN fact_check_results |->
                      ToDouble(verdict_score(fact_check_results[i]))]
         IN  IF verdict_scores # <<>>
             THEN FDivInt(builtin_sum(verdict_scores, build), Len(verdict_scores))
             ELSE ToDouble(Half)

\* Results of the five verdict classes, and a mock result
DoubleFactCheckResults ==
    [verdict : {V_True, V_FALSE, V_Misleading, V_Unproven, V_MostlyTrue}]
    \cup [verdict : {V_ApiKey}, mock : {TRUE}]

DoubleFactCheckLists == SeqsUpTo(DoubleFactCheckResults, MaxResults)

FactcheckScoreDouble(fact_check_results, build) ==
    /\ last = NoCall
    /\ last' = [op |-> "_calculate_factcheck_score (double)",
                fact_check_results |-> fact_check_results,
                build |-> build,
                ret |-> calculate_factcheck_score_double(fact_check_results, build)]
    /\ UNCHANGED <<weights, domain_reputation, nupd, call>>

NextDouble ==
    \E fact_check_results \in DoubleFactCheckLists, build \in SumBuilds :
        FactcheckScoreDouble(fact_check_results, build)

SpecDouble == InitWeights /\ [][NextDouble]_vars

(***************************************************************************)
(* nlp_engine.py: the classifier and the sentence analysis                 *)
(***************************************************************************)
IsSpace(c) == c \in {" ", "\n", "\t"}
IsSentenceEnd(c) == c \in {".", "!", "?"}

\* str.strip()
Strip(s) ==
    LET inked == {i \in DOMAIN s : ~IsSpace(s[i])}
    IN  IF inked = {} THEN <<>>
        ELSE SubSeq(s, CHOOSE i \in inked : \A j \in inked : i <= j,
                       CHOOSE i \in inked : \A j \in inked : j <= i)

\* The end of the run of whitespace that starts at position i
RECURSIVE SkipSpaces(_, _)
SkipSpaces(text, i) ==
    IF i <= Len(text) /\ IsSpace(text[i]) THEN SkipSpaces(text, i + 1) ELSE i

\* The first match of (?<=[.!?])\s+ from position i on: the first blank
\* that follows a sentence-ending character, Len(text) + 1 if there is none
NextSeparator(text, i) ==
    LET starts == {j \in i..Len(text) :
                      j > 1 /\ IsSpace(text[j]) /\ IsSentenceEnd(text[j - 1])}
    IN  IF starts = {} THEN Len(text) + 1
        ELSE CHOOSE j \in starts : \A k \in starts : j <= k

\* re.split(r'(?<=[.!?])\s+', text): cut at every run of whitespace that
\* follows a sentence-ending character; i is where the piece being read
\* starts
RECURSIVE re_split(_, _, _)
re_split(text, i, acc) ==
    LET j == NextSeparator(text, i)
    IN  IF j > Len(text) THEN Append(acc, SubSeq(text, i, Len(text)))
        ELSE re_split(text, SkipSpaces(text, j), Append(acc, SubSeq(text, i, j - 1)))

\* FakeNewsDetector._split_sentences
split_sentences(text) ==
    LET sentences == re_split(text, 1, <<>>)
        stripped  == [i \in DOMAIN sentences |-> Strip(sentences[i])]
    IN  SelectSeq(stripped, LAMBDA x : x # <<>>)

LabelsFake   == { <<"f","a","k","e">>, <<"f","a","l","s","e">>,
                  <<"u","n","r","e","l","i","a","b","l","e">>,
                  <<"f","a","b","r","i","c","a","t","e","d">> }
LabelsReal   == { <<"r","e","a","l">>, <<"t","r","u","e">>,
                  <<"r","e","l","i","a","b","l","e">>,
                  <<"f","a","c","t","u","a","l">> }
LabelsBiased == { <<"b","i","a","s","e","d">>, <<"o","p","i","n","i","o","n">>,
                  <<"m","i","s","l","e","a","d","i","n","g">> }
LabelsSatire == { <<"s","a","t","i","r","e">>, <<"h","u","m","o","r">>,
                  <<"c","o","m","e","d","y">> }

\* FakeNewsDetector._standardize_label
standardize_label(label) ==
    LET l == Lower(label)
    IN  IF l \in LabelsFake THEN S_Fake
        ELSE IF l \in LabelsReal THEN S_Real
        ELSE IF l \in LabelsBiased THEN S_Biased
        ELSE IF l \in LabelsSatire THEN S_Satire
        ELSE Capitalize(l)

\* max(scores, key=lambda x: x['score']): the first entry of highest score
BestPrediction(scores) ==
    scores[CHOOSE i \in DOMAIN scores :
               /\ \A j \in DOMAIN scores : RLe(scores[j].score, scores[i].score)
               /\ \A j \in 1..(i - 1) : RLt(scores[j].score, scores[i].score)]

model_max_length == 512

\* FakeNewsDetector.predict.  The tokenizer and the pipeline are the
\* environment: behaviour says whether the model is loaded at all (predict
\* raises RuntimeError when it is not), whether truncation fails
\* (outside the try block, so the exception leaves predict), whether
\* inference fails, and otherwise the scores the pipeline returns.  The
\* raw_scores entry of the result, which nothing reads, is left out.
predict(text, behaviour) ==
    IF behaviour.kind = "not_loaded" THEN Raised("RuntimeError")
    ELSE IF behaviour.kind = "truncate_error" THEN Raised("Exception")
    ELSE IF behaviour.kind = "inference_error" \/ behaviour.scores = <<>>
         THEN Returned([label |-> S_Unknown, confidence |-> Zero,
                        text_length |-> Len(text), truncated |-> FALSE,
                        error |-> TRUE])
    ELSE LET best_prediction == BestPrediction(behaviour.scores)
         IN  Returned([label |-> standardize_label(best_prediction.label),
                       confidence |-> best_prediction.score,
                       text_length |-> Len(text),
                       truncated |-> Len(text) > model_max_length])

\* A faulty short-sentence test: a sentence of exactly 10 characters is
\* skipped too
skip_sentence_at_most_ten(sentence) == Len(Strip(sentence)) <= 10

\* line 105 of analyze_sentences: very short sentences are skipped
skip_sentence(sentence) == Len(Strip(sentence)) < 10

\* lines 108-125 of analyze_sentences: the entry of sentence number i
\* (counted from 0) given the outcome of predict
sentence_entry(sentence, i, outcome) ==
    IF outcome.raised
    THEN [sentence |-> sentence, suspicion_score |-> Half, position |-> i,
          label |-> S_Unknown]
    ELSE LET prediction == outcome.value
         IN  [sentence |-> sentence,
              suspicion_score |-> IF prediction.label = S_Real
                                  THEN RSub(One, prediction.confidence)
                                  ELSE prediction.confidence,
              position |-> i,
              label |-> prediction.label]

\* A faulty sort: x is put before the entries of its own score, so entries
\* of equal score come out in reverse order
RECURSIVE InsertSortedBeforeEqual(_, _)
InsertSortedBeforeEqual(x, sorted) ==
    IF sorted = <<>> THEN <<x>>
    ELSE IF RLe(Head(sorted).suspicion_score, x.suspicion_score)
         THEN <<x>> \o sorted
         ELSE <<Head(sorted)>> \o InsertSortedBeforeEqual(x, Tail(sorted))

\* list.sort(key=suspicion_score, reverse=True): a stable sort, entries of
\* equal score keep their order.  InsertSorted puts x behind every entry
\* whose score is at least that of x.
RECURSIVE InsertSorted(_, _)
InsertSorted(x, sorted) ==
    IF sorted = <<>> THEN <<x>>
    ELSE IF RLt(Head(sorted).suspicion_score, x.suspicion_score)
         THEN <<x>> \o sorted
         ELSE <<Head(sorted)>> \o InsertSorted(x, Tail(sorted))

RECURSIVE sort_by_suspicion(_)
sort_by_suspicion(entries) ==
    IF entries = <<>> THEN <<>>
    ELSE InsertSorted(entries[Len(entries)],
                      sort_by_suspicion(SubSeq(entries, 1, Len(entries) - 1)))

\* The loop of analyze_sentences (lines 104-125) from sentence number i on;
\* behaviours[k] is what the classifier does for the k-th analysed sentence
RECURSIVE analysis_loop(_, _, _, _, _)
analysis_loop(sentences, i, behaviours, k, sentence_analyses) ==
    IF i > Len(sentences) THEN sentence_analyses
    ELSE IF skip_sentence(sentences[i])
         THEN analysis_loop(sentences, i + 1, behaviours, k, sentence_analyses)
         ELSE analysis_loop(sentences, i + 1, behaviours, k + 1,
                  Append(sentence_analyses,
                         sentence_entry(sentences[i], i - 1,
                                        predict(sentences[i], behaviours[k]))))

\* FakeNewsDetector.analyze_sentences (nlp_engine.py)
analyze_sentences(text, behaviours) ==
    sort_by_suspicion(analysis_loop(split_sentences(text), 1, behaviours, 1, <<>>))

(***************************************************************************)
(* nlp_engine_mock.py: the heuristic sentence analysis                     *)
(***************************************************************************)
\* "sub in s" for strings
Contains(s, sub) ==
    \E i \in 1..(Len(s) - Len(sub) + 1) : \A k \in DOMAIN sub : s[i + k - 1] = sub[k]

\* fake_indicators of the mock analyze_sentences
SentenceFakeIndicators ==
    { <<"m","i","r","a","c","l","e">>, <<"s","h","o","c","k","i","n","g">>,
      <<"s","e","c","r","e","t">>, <<"h","i","d","d","e","n">>,
      <<"l","e","a","k","e","d">>, <<"b","r","e","a","k","i","n","g">>,
      <<"e","x","c","l","u","s","i","v","e">>, <<"r","e","v","e","a","l","e","d">> }

\* lines 89-107 of the mock analyze_sentences: the entry of sentence number
\* i given the value drawn by random.uniform(-0.1, 0.1)
mock_sentence_entry(sentence, i, drawn) ==
    LET sentence_lower == Lower(sentence)
        suspicion_indicators ==
            Cardinality({ind \in SentenceFakeIndicators : Contains(sentence_lower, ind)})
        base == RMin(Rat(9, 10),
                     RAdd(Rat(1, 10), RMul(RInt(suspicion_indicators), Rat(2, 10))))
        suspicion_score == RMax(Zero, RMin(One, RAdd(base, drawn)))
    IN  [sentence |-> sentence,
         suspicion_score |-> suspicion_score,
         position |-> i,
         label |-> IF RLt(Rat(6, 10), suspicion_score) THEN S_Fake ELSE S_Real]

\* The loop of the mock analyze_sentences (lines 85-107); draws[k] is the
\* random value drawn for the k-th analysed sentence
RECURSIVE mock_analysis_loop(_, _, _, _, _)
mock_analysis_loop(sentences, i, draws, k, sentence_analyses) ==
    IF i > Len(sentences) THEN sentence_analyses
    ELSE IF skip_sentence(sentences[i])
         THEN mock_analysis_loop(sentences, i + 1, draws, k, sentence_analyses)
         ELSE mock_analysis_loop(sentences, i + 1, draws, k + 1,
                  Append(sentence_analyses,
                         mock_sentence_entry(sentences[i], i - 1, draws[k])))

\* FakeNewsDetector.analyze_sentences (nlp_engine_mock.py)
mock_analyze_sentences(text, draws) ==
    sort_by_suspicion(mock_analysis_loop(split_sentences(text), 1, draws, 1, <<>>))

(***************************************************************************)
(* Texts and classifier behaviours                                         *)
(***************************************************************************)
MaxSentences == 3   \* sentences a text is put together from

T_TenChars == <<"T","e","n"," ","c","h","a","r","s",".">>
T_NineOne  == <<"N","i","n","e"," ","o","n","e","!">>
T_Leaked   == <<"L","e","a","k","e","d"," ","s","e","c","r","e","t","?">>

\* Sentences of 10, 9 and 14 characters
TextSentences == {T_TenChars, T_NineOne, T_Leaked}

\* What follows a sentence: nothing, or a blank and a line break
TextSeparators == {<<>>, <<" ", "\n">>}

TextPieces == {sentence \o separator :
                   sentence \in TextSentences, separator \in TextSeparators}

RECURSIVE Concat(_)
Concat(pieces) == IF pieces = <<>> THEN <<>> ELSE Head(pieces) \o Concat(Tail(pieces))

Texts == {Concat(pieces) : pieces \in SeqsUpTo(TextPieces, MaxSentences)}

R_FAKE    == <<"F","A","K","E">>
R_REAL    == <<"R","E","A","L">>
R_LABEL_0 == <<"L","A","B","E","L","_","0">>
R_LABEL_1 == <<"L","A","B","E","L","_","1">>
R_opinion == <<"o","p","i","n","i","o","n">>

\* What tokenizer and pipeline may do for one text.  A constructed detector
\* has its model loaded (_load_model raises otherwise), so "not_loaded" is
\* not among them.
ClassifierBehaviours ==
    { [kind |-> "truncate_error"],
      [kind |-> "inference_error"],
      [kind |-> "scores", scores |-> <<[label |-> R_FAKE, score |-> Rat(9, 10)],
                                       [label |-> R_REAL, score |-> Rat(1, 10)]>>],
      [kind |-> "scores", scores |-> <<[label |-> R_FAKE, score |-> Rat(1, 4)],
                                       [label |-> R_REAL, score |-> Rat(3, 4)]>>],
      [kind |-> "scores", scores |-> <<[label |-> R_LABEL_0, score |-> Half],
                                       [label |-> R_LABEL_1, score |-> Half]>>],
      [kind |-> "scores", scores |-> <<[label |-> R_opinion, score |-> Rat(9, 10)]>>] }

\* The behaviours the sentence analysis is run with: a raise, a failed
\* inference, a confident Fake, a Real and a Biased
SentenceBehaviours ==
    {b \in ClassifierBehaviours :
        \/ b.kind \in {"truncate_error", "inference_error"}
        \/ b.kind = "scores" /\ b.scores[1].label \in {R_FAKE, R_opinion}}

\* Values of random.uniform(-0.1, 0.1)
RandomDraws == {Rat(-1, 10), Zero, Rat(1, 10)}

\* The number of sentences of a text that are analysed
NumAnalysed(text) ==
    Len(SelectSeq(split_sentences(text), LAMBDA x : ~skip_sentence(x)))

(***************************************************************************)
(* The sentence analysis of both engines, applied once to every text       *)
(***************************************************************************)
AnalyzeSentences(text, behaviours) ==
    /\ last = NoCall
    /\ last' = [op |-> "analyze_sentences", engine |-> "nlp_engine", text |-> text,
                behaviours |-> behaviours,
                ret |-> analyze_sentences(text, behaviours)]
    /\ UNCHANGED <<weights, domain_reputation, nupd, call>>

MockAnalyzeSentences(text, draws) ==
    /\ last = NoCall
    /\ last' = [op |-> "analyze_sentences", engine |-> "nlp_engine_mock", text |-> text,
                draws |-> draws,
                ret |-> mock_analyze_sentences(text, draws)]
    /\ UNCHANGED <<weights, domain_reputation, nupd, call>>

(***************************************************************************)
(* factcheck_adapter.py: the fact-check source                             *)
(***************************************************************************)
IsDigit(c) == c \in {"0", "1", "2", "3", "4", "5", "6", "7", "8", "9"}

\* \w of the patterns
IsWordChar(c) ==
    \/ IsDigit(c)
    \/ c = "_"
    \/ \E k \in DOMAIN UpperChars : UpperChars[k] = c \/ LowerChars[k] = c

\* re.search(r'\d+', sentence)
HasDigit(sentence) == \E i \in DOMAIN sentence : IsDigit(sentence[i])

\* re.search(r'\b(word)\b', sentence, re.IGNORECASE) for a lower-case word
HasWord(sentence, word) ==
    LET l == Lower(sentence)
    IN  \E i \in 1..(Len(l) - Len(word) + 1) :
            /\ \A k \in DOMAIN word : l[i + k - 1] = word[k]
            /\ i = 1 \/ ~IsWordChar(l[i - 1])
            /\ i + Len(word) > Len(l) \/ ~IsWordChar(l[i + Len(word)])

ReportingWords ==
    { <<"s","a","i","d">>, <<"r","e","p","o","r","t","e","d">>,
      <<"a","c","c","o","r","d","i","n","g">>, <<"s","t","u","d","y">>,
      <<"r","e","s","e","a","r","c","h">>, <<"d","a","t","a">> }

QuantityWords ==
    { <<"p","e","r","c","e","n","t">>, <<"m","i","l","l","i","o","n">>,
      <<"b","i","l","l","i","o","n">>, <<"t","h","o","u","s","a","n","d">> }

\* A faulty slice: the whole list whatever n is
TakeAll(s, n) == s

\* s[:n]
Take(s, n) ==
    IF n >= 0 THEN SubSeq(s, 1, IF n < Len(s) THEN n ELSE Len(s))
    ELSE SubSeq(s, 1, IF Len(s) + n > 0 THEN Len(s) + n ELSE 0)

\* FactCheckAdapter._extract_claims: the outcome, the TypeError of re.split
\* for a text that is not a string included
extract_claims(text) ==
    IF text = None THEN Raised("TypeError")
    ELSE LET sentences == re_split(text, 1, <<>>)
             stripped  == [i \in DOMAIN sentences |-> Strip(sentences[i])]
             claims    == SelectSeq(stripped, LAMBDA sentence :
                              /\ Len(sentence) > 20
                              /\ \/ HasDigit(sentence)
                                 \/ \E w \in ReportingWords : HasWord(sentence, w)
                                 \/ \E w \in QuantityWords : HasWord(sentence, w))
         IN  Returned(Take(claims, 5))

S_System      == <<"S","y","s","t","e","m">>
S_Unavailable == <<"F","a","c","t","-","c","h","e","c","k","i","n","g"," ",
                   "s","e","r","v","i","c","e"," ",
                   "u","n","a","v","a","i","l","a","b","l","e">>

\* The result a claim of the API response is turned into (lines 102-108)
review_result(claim, query) ==
    LET review == claim.claimReview[1]
    IN  [claim       |-> Get(claim, "text", query),
         url         |-> Get(review, "url", <<>>),
         verdict     |-> Get(review, "textualRating", S_Unknown),
         publisher   |-> Get(Get(review, "publisher", <<>>), "name", S_Unknown),
         review_date |-> Get(review, "reviewDate", <<>>)]

\* FactCheckAdapter._query_google_factcheck: None when the request, the
\* status check or the decoding of the response fails, else the results of
\* the claims of the response that have a review
query_google_factcheck(query, response) ==
    IF response.kind # "ok" THEN [is_none |-> TRUE]
    ELSE LET claims   == Get(response.data, "claims", <<>>)
             reviewed == SelectSeq(claims, LAMBDA claim :
                             Get(claim, "claimReview", <<>>) # <<>>)
         IN  [is_none |-> FALSE,
              value   |-> [i \in DOMAIN reviewed |-> review_result(reviewed[i], query)]]

\* FactCheckAdapter._mock_fact_check_response
mock_fact_check_response ==
    << [claim |-> S_Unavailable, url |-> <<>>, verdict |-> V_ApiKey,
        publisher |-> S_System, review_date |-> <<>>, mock |-> TRUE] >>

\* The loop of check_claims (lines 42-46): responses[i] is the answer of the
\* API to the i-th query
RECURSIVE query_loop(_, _, _, _)
query_loop(claims, i, responses, fact_check_results) ==
    IF i > Len(claims) THEN fact_check_results
    ELSE LET result == query_google_factcheck(claims[i], responses[i])
         IN  query_loop(claims, i + 1, responses,
                        IF ~result.is_none /\ result.value # <<>>
                        THEN fact_check_results \o result.value
                        ELSE fact_check_results)

\* FactCheckAdapter.__init__: self.enabled
adapter_enabled(adapter) == adapter.api_key # None /\ adapter.requests_available

\* A faulty check_claims: the collected results are returned as they are,
\* without the final cut to max_claims
check_claims_uncut(adapter, text, max_claims, responses) ==
    IF ~adapter_enabled(adapter) THEN mock_fact_check_response
    ELSE LET extracted == extract_claims(text)
         IN  IF extracted.raised THEN <<>>
             ELSE query_loop(Take(extracted.value, max_claims), 1, responses, <<>>)

\* FactCheckAdapter.check_claims
check_claims(adapter, text, max_claims, responses) ==
    IF ~adapter_enabled(adapter) THEN mock_fact_check_response
    ELSE LET extracted == extract_claims(text)
         IN  IF extracted.raised THEN <<>>
             ELSE Take(query_loop(Take(extracted.value, max_claims), 1, responses, <<>>),
                       max_claims)

MaxClaimSentences == 3  \* sentences a text to fact-check is put together from

max_claims_default == 5

F_Study    == <<"T","h","e"," ","s","t","u","d","y"," ","s","a","i","d"," ",
                "5"," ","p","e","r","c","e","n","t",".">>
F_Database == <<"N","o","b","o","d","y"," ","s","a","w"," ","t","h","e"," ",
                "d","a","t","a","b","a","s","e",".">>
F_Short    == <<"1","2"," ","s","a","i","d",".">>

\* A sentence that is a claim, one of more than 20 characters without a
\* number or a reporting word of its own ("database" is not "data"), and a
\* short one with both
FactSentences == {F_Study, F_Database, F_Short}

FactTexts ==
    {None} \cup
    {Concat(pieces) : pieces \in SeqsUpTo({sentence \o <<" ">> : sentence \in FactSentences},
                                          MaxClaimSentences)}

A_Key    == <<"k","e","y">>
A_NoKey  == [api_key |-> None, requests_available |-> TRUE]
P_Snopes == <<"S","n","o","p","e","s">>

\* Adapters: no key, a key without the requests library, and an enabled one
Adapters ==
    { [api_key |-> None,  requests_available |-> TRUE],
      [api_key |-> A_Key, requests_available |-> FALSE],
      [api_key |-> A_Key, requests_available |-> TRUE] }

\* Answers of the API to one query: a failed request, an object without
\* claims, a claim without a review, one reviewed claim, and two reviewed
\* claims of which the second has neither text nor rating
ApiResponses ==
    { [kind |-> "error"],
      [kind |-> "ok", data |-> [k \in {} |-> <<>>]],
      [kind |-> "ok", data |-> [claims |-> << [text |-> F_Short, claimReview |-> <<>>] >>]],
      [kind |-> "ok", data |-> [claims |-> <<
          [text |-> F_Short,
           claimReview |-> << [textualRating |-> V_FALSE,
                               publisher |-> [name |-> P_Snopes]] >>] >>]],
      [kind |-> "ok", data |-> [claims |-> <<
          [text |-> F_Short, claimReview |-> << [textualRating |-> V_True] >>],
          [claimReview |-> << [url |-> A_Key] >>] >>]] }

\* Values of max_claims: none, fewer than the results of two queries, and
\* the default
MaxClaimsValues == {0, 2, max_claims_default}

\* The number of queries check_claims sends for a text
NumQueries(text, max_claims) ==
    LET extracted == extract_claims(text)
    IN  IF extracted.raised THEN 0 ELSE Len(Take(extracted.value, max_claims))

\* FactCheckAdapter.check_claims on an adapter constructed for the call
CheckClaims(adapter, text, max_claims, responses) ==
    /\ last = NoCall
    /\ last' = [op |-> "check_claims", adapter |-> adapter, text |-> text,
                max_claims |-> max_claims, responses |-> responses,
                ret |-> check_claims(adapter, text, max_claims, responses)]
    /\ UNCHANGED <<weights, domain_reputation, nupd, call>>

NextFactcheck ==
    /\ last = NoCall
    /\ \E adapter \in Adapters, text \in FactTexts, max_claims \in MaxClaimsValues :
           \E responses \in [1..(IF adapter_enabled(adapter)
                                 THEN NumQueries(text, max_claims) ELSE 0) -> ApiResponses] :
               CheckClaims(adapter, text, max_claims, responses)

SpecFactcheck == InitWeights /\ [][NextFactcheck]_vars

(***************************************************************************)
(* nlp_engine_mock.py: the heuristic prediction, and scoring of Fake texts *)
(***************************************************************************)
\* fake_indicators and real_indicators of the mock predict
PredictFakeIndicators ==
    { <<"m","i","r","a","c","l","e"," ","c","u","r","e">>,
      <<"s","h","o","c","k","i","n","g"," ","t","r","u","t","h">>,
      <<"t","h","e","y"," ","d","o","n","'","t"," ","w","a","n","t"," ","y","o","u"," ","t","o"," ","k","n","o","w">>,
      <<"b","r","e","a","k","i","n","g",":">>,
      <<"s","c","i","e","n","t","i","s","t","s"," ","h","a","t","e"," ","h","i","m">>,
      <<"d","o","c","t","o","r","s"," ","s","h","o","c","k","e","d">>,
      <<"b","i","g"," ","p","h","a","r","m","a">>,
      <<"l","e","a","k","e","d"," ","d","o","c","u","m","e","n","t","s">>,
      <<"g","o","v","e","r","n","m","e","n","t"," ","s","e","c","r","e","t">> }

PredictRealIndicators ==
    { <<"f","e","d","e","r","a","l"," ","r","e","s","e","r","v","e">>,
      <<"a","n","n","o","u","n","c","e","d"," ","t","o","d","a","y">>,
      <<"a","c","c","o","r","d","i","n","g"," ","t","o">>,
      <<"r","e","s","e","a","r","c","h"," ","s","h","o","w","s">>,
      <<"s","t","u","d","y"," ","f","o","u","n","d">>,
      <<"d","a","t","a"," ","i","n","d","i","c","a","t","e","s">>,
      <<"o","f","f","i","c","i","a","l","s"," ","s","a","i","d">>,
      <<"r","e","p","o","r","t","e","d"," ","t","h","a","t">> }

\* FakeNewsDetector.predict of nlp_engine_mock.py (raw_scores, which nothing
\* reads, left out)
mock_predict(text) ==
    LET text_lower == Lower(text)
        fake_score == Cardinality({ind \in PredictFakeIndicators : Contains(text_lower, ind)})
        real_score == Cardinality({ind \in PredictRealIndicators : Contains(text_lower, ind)})
        label      == IF fake_score > real_score THEN S_Fake
                      ELSE IF real_score > fake_score THEN S_Real
                      ELSE S_Unknown
        confidence == IF fake_score > real_score
                      THEN RMin(Rat(9, 10), RAdd(Rat(6, 10), RMul(RInt(fake_score), Rat(1, 10))))
                      ELSE IF real_score > fake_score
                      THEN RMin(Rat(9, 10), RAdd(Rat(6, 10), RMul(RInt(real_score), Rat(1, 10))))
                      ELSE Half
    IN  [label |-> label, confidence |-> confidence,
         text_length |-> Len(text), truncated |-> Len(text) > model_max_length]

MaxPhrases == 3  \* phrases a text for the mock predict is put together from

ConfidenceSteps == 50  \* confidences between 0.5 and 1 in the inputs

\* Phrases: three fake indicators, a real one and a neutral one
TextPhrases ==
    { <<"B","R","E","A","K","I","N","G",":"," ">>,
      <<"M","i","r","a","c","l","e"," ","c","u","r","e"," ">>,
      <<"b","i","g"," ","p","h","a","r","m","a"," ">>,
      <<"s","t","u","d","y"," ","f","o","u","n","d"," ">>,
      <<"t","a","p"," ","w","a","t","e","r"," ">> }

PhraseTexts == {Concat(pieces) : pieces \in SeqsUpTo(TextPhrases, MaxPhrases)}

\* Confidences from 0.5 to 1 in equal steps, and 0.5005 just above 0.5
FakeConfidences ==
    {Rat(ConfidenceSteps + i, 2 * ConfidenceSteps) : i \in 0..ConfidenceSteps}
        \cup {Rat(1001, 2000)}

\* Fact-check lists of a neutral sub-score (empty, mock) and one that is not
FakeScoreFactChecks ==
    { <<>>, mock_fact_check_response, <<[verdict |-> V_True]>> }

\* Scoring of what a classifier returned for a text
ScorePrediction(label, confidence, fact_check_results, domain) ==
    /\ last = NoCall
    /\ Calculate([label |-> label, confidence |-> confidence], fact_check_results, domain)

\* Scoring of what the mock predict returns for a text
ScoreMockPrediction(text, fact_check_results) ==
    /\ last = NoCall
    /\ Calculate(mock_predict(text), fact_check_results, None)

NextFakeScore ==
    /\ last = NoCall
    /\ \/ \E label \in {S_Fake, S_Real}, confidence \in FakeConfidences,
              fact_check_results \in FakeScoreFactChecks, domain \in {None, <<>>} :
              ScorePrediction(label, confidence, fact_check_results, domain)
       \/ \E text \in PhraseTexts, fact_check_results \in FakeScoreFactChecks :
              ScoreMockPrediction(text, fact_check_results)

SpecFakeScore == InitWeights /\ [][NextFakeScore]_vars

(***************************************************************************)
(* main.py: the /predict handler                                           *)
(***************************************************************************)
text_min_length == 10

InUnit(x) == RLe(Zero, x) /\ RLe(x, One)

\* The constraints of PredictionResponse, FactCheckResult and
\* SentenceHighlight (models.py) on the fields predict_text fills in
ValidResponse(body) ==
    /\ InUnit(body.model_confidence)
    /\ RLe(Zero, body.credibility_score) /\ RLe(body.credibility_score, RInt(100))
    /\ body.source_reputation = NoneNum \/ InUnit(body.source_reputation)
    /\ \A i \in DOMAIN body.fact_check :
           {"claim", "url", "verdict", "publisher"} \subseteq DOMAIN body.fact_check[i]
    /\ \A i \in DOMAIN body.highlights :
           InUnit(body.highlights[i].suspicion_score) /\ body.highlights[i].position >= 0

\* The components predict_text calls
TextComponents == {"classifier", "fact_checker", "scorer"}

\* predict_text: the response to POST /predict, and the components that
\* were invoked for it.  behaviour is what the
\* classifier does for the whole text, behaviours what it does for the
\* sentences, responses what the fact-check API answers.  A text shorter
\* than min_length is refused before the handler runs; every exception in
\* the handler, a response that fails validation included, becomes 500.
predict_text(text, behaviour, behaviours, adapter, responses) ==
    IF Len(text) < text_min_length THEN [status |-> 422, invoked |-> {}]
    ELSE LET model_prediction == predict(text, behaviour)
         IN  IF model_prediction.raised
             THEN [status |-> 500, invoked |-> {"classifier"}]
             ELSE LET sentence_analysis  == analyze_sentences(text, behaviours)
                      fact_check_results ==
                          check_claims(adapter, text, max_claims_default, responses)
                      scoring_result ==
                          calculate_credibility_score(model_prediction.value,
                                                      fact_check_results, None)
                  IN  IF scoring_result.raised
                      THEN [status |-> 500, invoked |-> TextComponents]
                      ELSE LET body ==
                               [label |-> model_prediction.value.label,
                                model_confidence |-> model_prediction.value.confidence,
                                credibility_score |-> scoring_result.value.credibility_score,
                                source |-> None,
                                source_reputation |-> NoneNum,
                                fact_check |-> fact_check_results,
                                highlights |-> Take(sentence_analysis, 5),
                                breakdown |-> scoring_result.value.breakdown,
                                metadata |-> [text_length |-> Len(text),
                                              sentences_analyzed |-> Len(sentence_analysis),
                                              model_truncated |->
                                                  model_prediction.value.truncated]]
                           IN  IF ValidResponse(body)
                               THEN [status |-> 200, invoked |-> TextComponents, body |-> body]
                               ELSE [status |-> 500, invoked |-> TextComponents]

\* Texts sent to /predict: too short, without a claim, and with claims
PredictTexts ==
    {T_NineOne, T_TenChars, T_Leaked \o <<" ">> \o T_TenChars,
     F_Study, T_Leaked \o <<" ">> \o F_Study, F_Study \o <<" ">> \o F_Study}

\* POST /predict
PredictText(text, behaviour, behaviours, adapter, responses) ==
    /\ last = NoCall
    /\ last' = [op |-> "predict_text", text |-> text, behaviour |-> behaviour,
                behaviours |-> behaviours, adapter |-> adapter,
                response |-> predict_text(text, behaviour, behaviours, adapter, responses)]
    /\ UNCHANGED <<weights, domain_reputation, nupd, call>>

\* Scoring calls with and without a domain, and requests to /predict
NextSourceField ==
    /\ last = NoCall
    /\ \/ \E model_prediction \in SamplePredictions,
              fact_check_results \in SampleFactChecks, domain \in Domains :
              Calculate(model_prediction, fact_check_results, domain)
       \/ \E text \in PredictTexts, behaviour \in ClassifierBehaviours,
              sentence_behaviour \in SentenceBehaviours,
              adapter \in Adapters, response \in ApiResponses :
              PredictText(text, behaviour,
                          [k \in 1..NumAnalysed(text) |-> sentence_behaviour],
                          adapter,
                          [k \in 1..NumQueries(text, max_claims_default) |-> response])

SpecSourceField == Init /\ [][NextSourceField]_vars

(***************************************************************************)
(* scraper.py and the /predict-url handler of main.py                      *)
(***************************************************************************)
E_InvalidUrl == <<"I","n","v","a","l","i","d"," ","U","R","L"," ","f","o","r","m","a","t">>
E_NoContent  == <<"C","o","u","l","d"," ","n","o","t"," ","e","x","t","r","a","c","t"," ","a","r","t","i","c","l","e"," ","c","o","n","t","e","n","t">>
E_Fetch      == <<"F","a","i","l","e","d"," ","t","o"," ","f","e","t","c","h"," ","U","R","L",":"," ">>
E_Scraping   == <<"S","c","r","a","p","i","n","g"," ","e","r","r","o","r",":"," ">>

U_http  == <<"h","t","t","p">>
U_https == <<"h","t","t","p","s">>
U_ftp   == <<"f","t","p">>

\* A faulty domain: the host as it stands in the URL
scraper_domain_as_given(netloc) == netloc

\* lines 41-43 of extract_article: the host in lower case, one leading
\* "www." removed
scraper_domain(netloc) ==
    LET domain == Lower(netloc)
    IN  IF StartsWith(domain, S_www) THEN SliceFrom(domain, 4) ELSE domain

NoArticle(title, domain, error) ==
    [text |-> None, title |-> title, domain |-> domain, error |-> error]

\* ArticleScraper.extract_article.  A url is what urlparse makes of it
\* (scheme and netloc, or a ValueError); fetch is what the request and the
\* extraction of title and content from the page end in.
extract_article(url, fetch) ==
    IF url.raises THEN NoArticle(None, None, E_Scraping)
    ELSE IF url.scheme = <<>> \/ url.netloc = <<>>
    THEN NoArticle(None, None, E_InvalidUrl)
    ELSE LET domain == scraper_domain(url.netloc)
         IN  IF fetch.kind = "RequestException" THEN NoArticle(None, None, E_Fetch)
             ELSE IF fetch.kind = "Exception" THEN NoArticle(None, None, E_Scraping)
             ELSE IF fetch.text = None \/ fetch.text = <<>>
             THEN NoArticle(fetch.title, domain, E_NoContent)
             ELSE [text |-> fetch.text, title |-> fetch.title, domain |-> domain,
                   error |-> None]

\* A faulty validation: an http or https URL without a host is let through
HttpUrlValidWithoutHost(url) ==
    ~url.raises /\ url.scheme \in {U_http, U_https}

\* The validation of URLPredictionRequest.url (HttpUrl): an http or https
\* URL with a host
HttpUrlValid(url) ==
    ~url.raises /\ url.scheme \in {U_http, U_https} /\ url.netloc # <<>>

\* The components predict_url calls
UrlComponents == {"scraper", "classifier", "fact_checker", "scorer"}

\* predict_url: the response to POST /predict-url, and the components that
\* were invoked for it.  The HTTPException of status 400 is re-raised as
\* it is; every other exception in the handler becomes 500.
predict_url(url, fetch, behaviour, behaviours, adapter, responses) ==
    IF ~HttpUrlValid(url) THEN [status |-> 422, invoked |-> {}]
    ELSE LET scrape_result == extract_article(url, fetch)
         IN  IF scrape_result.error # None /\ scrape_result.error # <<>>
             THEN [status |-> 400, invoked |-> {"scraper"}]
             ELSE IF scrape_result.text = None \/ scrape_result.text = <<>>
             THEN [status |-> 400, invoked |-> {"scraper"}]
             ELSE LET text == scrape_result.text
                      model_prediction == predict(text, behaviour)
                  IN  IF model_prediction.raised
                      THEN [status |-> 500, invoked |-> {"scraper", "classifier"}]
                      ELSE LET sentence_analysis  == analyze_sentences(text, behaviours)
                               fact_check_results ==
                                   check_claims(adapter, text, max_claims_default, responses)
                               scoring_result ==
                                   calculate_credibility_score(model_prediction.value,
                                       fact_check_results, scrape_result.domain)
                           IN  IF scoring_result.raised
                               THEN [status |-> 500, invoked |-> UrlComponents]
                               ELSE LET body ==
                                        [label |-> model_prediction.value.label,
                                         model_confidence |->
                                             model_prediction.value.confidence,
                                         credibility_score |->
                                             scoring_result.value.credibility_score,
                                         source |-> scrape_result.domain,
                                         source_reputation |->
                                             scoring_result.value.source_reputation,
                                         fact_check |-> fact_check_results,
                                         highlights |-> Take(sentence_analysis, 5),
                                         breakdown |-> scoring_result.value.breakdown,
                                         metadata |-> [
                                             title |-> scrape_result.title,
                                             text_length |-> Len(text),
                                             sentences_analyzed |-> Len(sentence_analysis),
                                             model_truncated |->
                                                 model_prediction.value.truncated]]
                                    IN  IF ValidResponse(body)
                                        THEN [status |-> 200, invoked |-> UrlComponents,
                                              body |-> body]
                                        ELSE [status |-> 500, invoked |-> UrlComponents]

MaxHighlightSentences == 7  \* sentences of the longest article

\* What urlparse makes of the url of a request: no URL at all, a URL that
\* makes urlparse raise, URLs without a host or of another scheme, and
\* http and https URLs of several hosts
Urls ==
    { [raises |-> FALSE, scheme |-> <<>>, netloc |-> <<>>],
      [raises |-> TRUE,  scheme |-> U_http, netloc |-> <<>>],
      [raises |-> FALSE, scheme |-> U_https, netloc |-> <<>>],
      [raises |-> FALSE, scheme |-> U_ftp, netloc |-> D_example] }
    \cup { [raises |-> FALSE, scheme |-> scheme, netloc |-> netloc] :
               scheme \in {U_http, U_https},
               netloc \in {D_WWW_EXAMPLE, D_www_www, D_unknown_org} }

P_Title == <<"A"," ","t","i","t","l","e">>

\* An article of n sentences, alternately of 10 and of 14 characters
RECURSIVE Article(_)
Article(n) ==
    IF n = 0 THEN <<>>
    ELSE Article(n - 1) \o (IF n % 2 = 1 THEN T_TenChars ELSE T_Leaked) \o <<" ">>

\* The text extracted from a page: none, an empty one, texts with and
\* without claims and sentences too short to analyse
PageTexts ==
    {None, <<>>, T_NineOne \o <<" ">> \o T_TenChars, F_Study \o <<" ">> \o T_Leaked}

\* What fetching and parsing a page ends in
Fetches ==
    { [kind |-> "RequestException"], [kind |-> "Exception"] }
    \cup { [kind |-> "page", title |-> title, text |-> text] :
               title \in {None, P_Title}, text \in PageTexts }

FetchedText(fetch) ==
    IF fetch.kind = "page" /\ fetch.text # None THEN fetch.text ELSE <<>>

\* What the classifier does for the sentences of an article: Fake with
\* confidence 0.9 or Real with confidence 0.75
HighlightBehaviours ==
    {b \in ClassifierBehaviours :
        b.kind = "scores" /\ b.scores[1].label = R_FAKE}

\* The behaviour of a classifier that answers
B_Fake == [kind |-> "scores", scores |-> <<[label |-> R_FAKE, score |-> Rat(9, 10)],
                                           [label |-> R_REAL, score |-> Rat(1, 10)]>>]

\* A direct call of extract_article
ExtractArticle(url, fetch) ==
    /\ last = NoCall
    /\ last' = [op |-> "extract_article", url |-> url, fetch |-> fetch,
                ret |-> extract_article(url, fetch)]
    /\ UNCHANGED <<weights, domain_reputation, nupd, call>>

\* POST /predict-url
PredictUrl(url, fetch, behaviour, behaviours, adapter, responses) ==
    /\ last = NoCall
    /\ last' = [op |-> "predict_url", url |-> url, fetch |-> fetch,
                behaviour |-> behaviour, behaviours |-> behaviours, adapter |-> adapter,
                response |-> predict_url(url, fetch, behaviour, behaviours, adapter,
                                         responses)]
    /\ UNCHANGED <<weights, domain_reputation, nupd, call>>

\* Requests to the two endpoints with short texts and every behaviour of
\* the collaborators, requests with articles of up to MaxHighlightSentences
\* sentences, and direct calls of the scraper
\* An adapter and what the API answers to its queries; an adapter that is
\* not enabled sends none
AnsweredAdapters ==
    {<<adapter, response>> \in Adapters \X ApiResponses :
        adapter_enabled(adapter) \/ response.kind = "error"}

NextService ==
    /\ last = NoCall
    /\ \/ \E text \in PredictTexts \cup {<<>>}, behaviour \in ClassifierBehaviours,
              sentence_behaviour \in SentenceBehaviours,
              answered \in AnsweredAdapters :
              PredictText(text, behaviour,
                          [k \in 1..NumAnalysed(text) |-> sentence_behaviour],
                          answered[1],
                          [k \in 1..NumQueries(text, max_claims_default) |-> answered[2]])
       \/ \E n \in 0..MaxHighlightSentences :
              \E behaviours \in [1..n -> HighlightBehaviours] :
                  PredictText(Article(n), B_Fake, behaviours, A_NoKey, <<>>)
       \/ \E url \in Urls, fetch \in Fetches, behaviour \in ClassifierBehaviours,
              sentence_behaviour \in SentenceBehaviours,
              answered \in AnsweredAdapters :
              PredictUrl(url, fetch, behaviour,
                         [k \in 1..NumAnalysed(FetchedText(fetch)) |-> sentence_behaviour],
                         answered[1],
                         [k \in 1..NumQueries(FetchedText(fetch), max_claims_default)
                             |-> answered[2]])
       \/ \E n \in 1..MaxHighlightSentences :
              \E behaviours \in [1..n -> HighlightBehaviours] :
                  PredictUrl([raises |-> FALSE, scheme |-> U_https, netloc |-> D_example],
                             [kind |-> "page", title |-> P_Title, text |-> Article(n)],
                             B_Fake, behaviours, A_NoKey, <<>>)
       \/ \E url \in Urls \cup {[raises |-> FALSE, scheme |-> U_http, netloc |-> S_www]},
              fetch \in Fetches :
              ExtractArticle(url, fetch)

SpecService == Init /\ [][NextService]_vars

(***************************************************************************)
(* Labels handed to _standardize_label                                     *)
(***************************************************************************)
MaxCaseLen == 5  \* words up to this length are tried in every casing

L_neutral  == <<"n","e","u","t","r","a","l">>
L_unknown  == <<"u","n","k","n","o","w","n">>
L_fak      == <<"f","a","k">>
L_reals    == <<"r","e","a","l","s">>
L_n_ab     == <<C_0149, "a", "b">>
L_s_atire  == <<C_017F, "a", "t", "i", "r", "e">>

\* The synonyms of the four classes and words that are none of them: the
\* empty label, a prefix and an extension of a synonym, and two labels
\* with a first character outside ASCII
LabelWords ==
    LabelsFake \cup LabelsReal \cup LabelsBiased \cup LabelsSatire
        \cup {<<>>, L_neutral, L_unknown, L_fak, L_reals, Lower(L_Label_0), L_n_ab, L_s_atire}

\* A word with the letters at the given positions in upper case
WithUpper(word, positions) ==
    [i \in DOMAIN word |-> IF i \in positions THEN UpperChar(word[i]) ELSE word[i]]

\* A short word in every casing; a longer one in lower case, in upper
\* case, with a capital first letter and with a capital last letter
CaseVariants(word) ==
    IF Len(word) <= MaxCaseLen
    THEN {WithUpper(word, positions) : positions \in SUBSET DOMAIN word}
    ELSE {WithUpper(word, positions) : positions \in {{}, DOMAIN word, {1}, {Len(word)}}}

RawLabels == UNION {CaseVariants(word) : word \in LabelWords}

\* FakeNewsDetector._standardize_label on a label of the classifier
StandardizeLabel(label) ==
    /\ last = NoCall
    /\ last' = [op |-> "standardize_label", label |-> label,
                ret |-> standardize_label(label), pass |-> 1]
    /\ UNCHANGED <<weights, domain_reputation, nupd, call>>

\* FakeNewsDetector._standardize_label on the label it returned
StandardizeAgain ==
    /\ last.op = "standardize_label"
    /\ last.pass = 1
    /\ last' = [op |-> "standardize_label", label |-> last.ret,
                ret |-> standardize_label(last.ret), pass |-> 2]
    /\ UNCHANGED <<weights, domain_reputation, nupd, call>>

NextLabels ==
    \/ /\ last = NoCall
       /\ \E label \in RawLabels : StandardizeLabel(label)
    \/ StandardizeAgain

SpecLabels == InitWeights /\ [][NextLabels]_vars

\* FakeNewsDetector.predict, applied once to every text
Predict(text, behaviour) ==
    /\ last = NoCall
    /\ last' = [op |-> "predict", text |-> text, behaviour |-> behaviour,
                outcome |-> predict(text, behaviour)]
    /\ UNCHANGED <<weights, domain_reputation, nupd, call>>

NextPredict ==
    /\ last = NoCall
    /\ \E text \in Texts, behaviour \in ClassifierBehaviours : Predict(text, behaviour)

SpecPredict == InitWeights /\ [][NextPredict]_vars

NextSentences ==
    /\ last = NoCall
    /\ \/ \E text \in Texts :
              \E behaviours \in [1..NumAnalysed(text) -> SentenceBehaviours] :
                  AnalyzeSentences(text, behaviours)
       \/ \E text \in Texts :
              \E draws \in [1..NumAnalysed(text) -> RandomDraws] :
                  MockAnalyzeSentences(text, draws)

SpecSentences == InitWeights /\ [][NextSentences]_vars

(***************************************************************************)
(* Properties                                                              *)
(***************************************************************************)
Scored == last.op = "calculate_credibility_score" /\ ~last.outcome.raised

\* The credibility_score of the last completed scoring call
LastScore == last.outcome.value.credibility_score

\* The exact weighted sum 100 * (m*w_m + f*w_f + s*w_s) of the last call,
\* from the scorer's weights as they stand
ExactWeightedSum ==
    LET m == calculate_model_score(last.model_prediction)
        f == calculate_factcheck_score(last.fact_check_results)
        s == calculate_source_score(last.domain).value
    IN  RMul(RInt(100),
             RAdd(RAdd(RMul(m, weights["model_confidence"]),
                       RMul(f, weights["fact_check_evidence"])),
                  RMul(s, weights["source_reputation"])))

AllSubScores(v) ==
    /\ calculate_model_score(last.model_prediction) = v
    /\ calculate_factcheck_score(last.fact_check_results) = v
    /\ calculate_source_score(last.domain) = Returned(v)

\* C1: the credibility_score of every scoring call is the weighted sum
\* 100 * (model*w_model + factcheck*w_factcheck + source*w_source) of the
\* three sub-scores under the current weights, rounded to one decimal place
\* (a whole number of tenths at most 0.05 away from the sum), with no
\* clamping and no renormalisation; with the weights 0.5/0.3/0.2, sub-scores
\* all 1.0 give 100.0 and sub-scores all 0.0 give 0.0.
C1_WeightedSumRounded ==
    Scored =>
        /\ (LastScore[1] * 10) % LastScore[2] = 0
        /\ RLe(RAbs(RSub(LastScore, ExactWeightedSum)), Rat(1, 20))
        /\ (weights = DefaultWeights /\ AllSubScores(One)) => LastScore = RInt(100)
        /\ (weights = DefaultWeights /\ AllSubScores(Zero)) => LastScore = Zero

\* C1 witness: a score above 100, returned unclamped under weights that sum
\* to more than 1
C1_Witness ==
    /\ Scored
    /\ RLt(RInt(100), LastScore)
    /\ RLt(One, SumValues(weights))

\* C2: every credibility_score lies in [0, 100] (confidences in [0, 1],
\* table values in [0, 1], weight updates with non-negative entries, starting
\* from the default weights).
C2_ScoreWithin0And100 ==
    (Scored /\ domain_reputation.kind = "dict") => RLe(Zero, LastScore) /\ RLe(LastScore, RInt(100))

\* C9: the three weights sum to 1.0 within the tolerance 0.01 in every
\* reachable state.
C9_WeightsSumToOne ==
    RLe(RAbs(RSub(SumValues(weights), One)), Rat(1, 100))

Updated == last.op = "update_weights" /\ ~last.raised

\* C7: a completed update_weights merges the new entries into the weights:
\* as given when they sum to within 0.01 of 1.0, each divided by their sum
\* otherwise; every weight not named keeps its prior value; and
\* {model_confidence: 2, fact_check_evidence: 2} gives 0.5 and 0.5 with
\* source_reputation unchanged.
C7_UpdateMergesNewEntries ==
    Updated =>
        LET new   == last.new_weights
            total == SumValues(new)
            asGiven == RLe(RAbs(RSub(total, One)), Rat(1, 100))
        IN  /\ DOMAIN weights = DOMAIN last.before \cup DOMAIN new
            /\ \A k \in DOMAIN weights \ DOMAIN new : weights[k] = last.before[k]
            /\ \A k \in DOMAIN new :
                   IF asGiven THEN weights[k] = new[k]
                   ELSE RMul(weights[k], total) = new[k]
            /\ new = [model_confidence |-> RInt(2), fact_check_evidence |-> RInt(2)]
               => /\ weights["model_confidence"] = Half
                  /\ weights["fact_check_evidence"] = Half
                  /\ weights["source_reputation"] = last.before["source_reputation"]

\* C7 witness: the update {model_confidence: 2, fact_check_evidence: 2} of
\* the default weights has left source_reputation at 0.2
C7_Witness ==
    /\ Updated
    /\ last.new_weights = [model_confidence |-> RInt(2), fact_check_evidence |-> RInt(2)]
    /\ last.before = DefaultWeights
    /\ weights = [model_confidence |-> Half, fact_check_evidence |-> Half,
                  source_reputation |-> Rat(2, 10)]

ModelScored == last.op = "_calculate_model_score"

\* C3: the model sub-score is the confidence for Real, 1 - confidence for
\* Fake, 0.4 for Biased and 0.2 for Satire whatever the confidence, and 0.5
\* for Unknown and every other label string.
C3_ModelScoreByLabel ==
    (ModelScored /\ "label" \in DOMAIN last.prediction) =>
        LET label == last.prediction.label
            hasConfidence == "confidence" \in DOMAIN last.prediction
        IN  /\ (label = S_Real /\ hasConfidence) => last.ret = last.prediction.confidence
            /\ (label = S_Fake /\ hasConfidence)
                   => RAdd(last.ret, last.prediction.confidence) = One
            /\ label = S_Biased => last.ret = Rat(4, 10)
            /\ label = S_Satire => last.ret = Rat(2, 10)
            /\ label \notin {S_Real, S_Fake, S_Biased, S_Satire} => last.ret = Half

\* C3 witness: the capitalised unrecognised label "Label_0" with confidence
\* 0.9 has scored 0.5
C3_Witness ==
    /\ ModelScored
    /\ last.prediction = [label |-> L_Label_0, confidence |-> Rat(9, 10)]
    /\ last.ret = Half

FactcheckScored == last.op = "_calculate_factcheck_score"

IsMock(result) == "mock" \in DOMAIN result /\ result.mock = TRUE

\* C4: the fact-check sub-score is exactly 0.5 for the empty list and for
\* every list holding at least one result flagged mock, whatever the other
\* results are.
C4_EmptyOrMockIsNeutral ==
    FactcheckScored =>
        LET results == last.fact_check_results
        IN  (results = <<>> \/ \E i \in DOMAIN results : IsMock(results[i]))
                => last.ret = Half

\* C4 witness: a list whose first result is a real True verdict and whose
\* later result is mock has scored 0.5
C4_Witness ==
    /\ FactcheckScored
    /\ Len(last.fact_check_results) >= 2
    /\ last.fact_check_results[1] = [verdict |-> V_True]
    /\ \E i \in DOMAIN last.fact_check_results : IsMock(last.fact_check_results[i])
    /\ last.ret = Half

SourceScored == last.op = "_calculate_source_score"

\* C6: the source sub-score is 0.5 for a null domain; otherwise it is the
\* table value of the lower-cased domain less one leading "www." when the
\* table has that key and 0.5 when it has not, so that "www.Example.com"
\* and "example.com" score alike; and the lookup returns a value, never
\* raising, for every domain and every table that loading can produce.
C6_SourceLookupTotal ==
    SourceScored =>
        /\ ~last.outcome.raised
        /\ last.domain = None => last.outcome.value = Half
        /\ Truthy(last.domain) =>
               LET key == clean_domain(last.domain)
               IN  IF key \in DOMAIN domain_reputation.map
                   THEN last.outcome.value = domain_reputation.map[key]
                   ELSE last.outcome.value = Half
        /\ calculate_source_score(D_www_Example) = calculate_source_score(D_example)

\* The weights a threaded scoring call has applied
AppliedWeights == <<call.w_model, call.w_factcheck, call.w_source>>

WeightTriple(w) ==
    <<w["model_confidence"], w["fact_check_evidence"], w["source_reputation"]>>

\* C8: a scoring call that ran while weights were being updated has applied
\* one of the weight sets that were current during the call, complete: never
\* some weights of one set and some of another.
C8_NoTornWeights ==
    (call.pc = "done" /\ "w_source" \in DOMAIN call)
        => \E w \in call.seen : AppliedWeights = WeightTriple(w)

(***************************************************************************)
(* The mean of the verdict scores                                          *)
(***************************************************************************)
FactcheckScoredDouble ==
    "op" \in DOMAIN last /\ last.op = "_calculate_factcheck_score (double)"

\* The score of a verdict by its class: True 1.0, False 0.0, Misleading
\* 0.3, Unproven 0.4, anything else (a missing verdict too) 0.5
ExpectedVerdictScore(result) ==
    IF "verdict" \notin DOMAIN result THEN Half
    ELSE IF result.verdict = V_True THEN One
    ELSE IF result.verdict = V_FALSE THEN Zero
    ELSE IF result.verdict \in {V_Misleading, V_PartlyFalse} THEN Rat(3, 10)
    ELSE IF result.verdict = V_Unproven THEN Rat(4, 10)
    ELSE Half

\* A non-empty list without a mock entry has been scored
MeanCase ==
    /\ FactcheckScoredDouble
    /\ last.fact_check_results # <<>>
    /\ \A i \in DOMAIN last.fact_check_results :
           ~Get(last.fact_check_results[i], "mock", FALSE)

\* The sub-score is the mean of the per-result scores: the float quotient of
\* their float sum, taken in the order of the list, by their number
MeanOfVerdictScores ==
    MeanCase =>
        LET results == last.fact_check_results
            scores  == [i \in DOMAIN results |-> ToDouble(ExpectedVerdictScore(results[i]))]
        IN  last.ret = FDivInt(builtin_sum(scores, last.build), Len(results))

\* C5: for a non-empty fact-check list with no mock entry the sub-score is
\* the arithmetic mean of the per-result scores (True 1.0, False 0.0,
\* Misleading 0.3, Unproven 0.4, other 0.5, matched case-insensitively) and
\* it is the same for every permutation of the list.
C5_MeanSameForEveryPermutation ==
    /\ MeanOfVerdictScores
    /\ MeanCase =>
           LET results == last.fact_check_results
           IN  \A p \in Permutations(DOMAIN results) :
                   calculate_factcheck_score_double(
                       [i \in DOMAIN results |-> results[p[i]]], last.build) = last.ret

(***************************************************************************)
(* Sentence analysis                                                       *)
(***************************************************************************)
SentencesAnalysed == "op" \in DOMAIN last /\ last.op = "analyze_sentences"

\* Positions (counted from 0) of the segmented sentences of a text whose
\* trimmed length is at least 10
LongSentencePositions(text) ==
    LET sentences == split_sentences(text)
    IN  {i - 1 : i \in {j \in DOMAIN sentences : Len(Strip(sentences[j])) >= 10}}

\* C10: analyze_sentences, of either engine, returns exactly one entry for
\* each segmented sentence whose trimmed length is at least 10 and none for
\* a shorter one: the entries are as many as those sentences, each sentence
\* number occurs in exactly one entry, and every entry carries the sentence
\* of its number, so the output is a permutation of the filtered sentences.
C10_OneEntryPerLongSentence ==
    SentencesAnalysed =>
        LET sentences == split_sentences(last.text)
            kept      == LongSentencePositions(last.text)
        IN  /\ Len(last.ret) = Cardinality(kept)
            /\ \A p \in kept :
                   Cardinality({n \in DOMAIN last.ret : last.ret[n].position = p}) = 1
            /\ \A n \in DOMAIN last.ret :
                   /\ last.ret[n].position \in kept
                   /\ last.ret[n].sentence = sentences[last.ret[n].position + 1]
                   /\ Len(Strip(last.ret[n].sentence)) >= 10

\* A text with a sentence of exactly 10 characters, one of 9 and one of 14
\* has been analysed: two entries, the short sentence left out
C10_Witness ==
    /\ SentencesAnalysed
    /\ last.text = T_TenChars \o <<" ", "\n">> \o T_NineOne \o <<" ", "\n">> \o T_Leaked
    /\ Len(last.ret) = 2
    /\ {last.ret[n].sentence : n \in DOMAIN last.ret} = {T_TenChars, T_Leaked}
    /\ {last.ret[n].position : n \in DOMAIN last.ret} = {0, 2}

\* C11: the list analyze_sentences returns is ordered by suspicion_score
\* non-increasing, and of two entries with equal suspicion_score the one of
\* the smaller original index comes first.
C11_SortedStable ==
    SentencesAnalysed =>
        \A n, m \in DOMAIN last.ret :
            n < m =>
                /\ RLe(last.ret[m].suspicion_score, last.ret[n].suspicion_score)
                /\ last.ret[m].suspicion_score = last.ret[n].suspicion_score
                       => last.ret[n].position < last.ret[m].position

\* Three sentences analysed: the last one has the highest score and comes
\* first, the other two have equal scores and keep their order
C11_Witness ==
    /\ SentencesAnalysed
    /\ last.engine = "nlp_engine"
    /\ Len(last.ret) = 3
    /\ <<last.ret[1].position, last.ret[2].position, last.ret[3].position>> = <<2, 0, 1>>
    /\ RLt(last.ret[2].suspicion_score, last.ret[1].suspicion_score)
    /\ last.ret[2].suspicion_score = last.ret[3].suspicion_score

RealEngineAnalysed == SentencesAnalysed /\ last.engine = "nlp_engine"

\* The outcome of predict for the sentence of an entry: the behaviours are
\* numbered by the analysed sentences in their original order
ClassifierOutcome(entry) ==
    predict(entry.sentence,
            last.behaviours[Cardinality({p \in LongSentencePositions(last.text) :
                                             p <= entry.position})])

\* C12: for every analysed sentence, suspicion_score equals the classifier's
\* confidence when the label is Fake and 1 - confidence for every other
\* label (Real, Biased, Satire, Unknown or any unrecognised label).
C12_SuspicionByLabel ==
    RealEngineAnalysed =>
        \A n \in DOMAIN last.ret :
            LET outcome == ClassifierOutcome(last.ret[n])
            IN  ~outcome.raised =>
                    /\ last.ret[n].label = outcome.value.label
                    /\ last.ret[n].suspicion_score =
                           IF outcome.value.label = S_Fake
                           THEN outcome.value.confidence
                           ELSE RSub(One, outcome.value.confidence)

\* The segmented sentences of trimmed length at least 10, in their order
FilteredSentences(text) ==
    SelectSeq(split_sentences(text), LAMBDA x : Len(Strip(x)) >= 10)

\* C13: the position of each entry is the index of its sentence in the
\* filtered sequence of analysed sentences: a skipped short sentence does
\* not consume an index, and the sort does not renumber the positions.
C13_PositionInFilteredSequence ==
    SentencesAnalysed =>
        LET filtered == FilteredSentences(last.text)
        IN  /\ {last.ret[n].position : n \in DOMAIN last.ret} = 0..(Len(filtered) - 1)
            /\ \A n \in DOMAIN last.ret :
                   filtered[last.ret[n].position + 1] = last.ret[n].sentence

\* What the classifier did for the sentence of an entry
BehaviourOf(entry) ==
    last.behaviours[Cardinality({p \in LongSentencePositions(last.text) :
                                     p <= entry.position})]

ClassificationFailed(behaviour) ==
    \/ behaviour.kind \in {"truncate_error", "inference_error"}
    \/ behaviour.kind = "scores" /\ behaviour.scores = <<>>

\* C14: a sentence whose classification fails still appears in the output,
\* with suspicion_score 0.5 and label Unknown; the remaining sentences are
\* analysed normally (they carry the label of the classifier), and the call
\* returns a result with one entry for every analysed sentence.
C14_FailedSentenceDegraded ==
    RealEngineAnalysed =>
        /\ Len(last.ret) = Len(FilteredSentences(last.text))
        /\ \A n \in DOMAIN last.ret :
               IF ClassificationFailed(BehaviourOf(last.ret[n]))
               THEN /\ last.ret[n].suspicion_score = Half
                    /\ last.ret[n].label = S_Unknown
               ELSE last.ret[n].label =
                        standardize_label(BestPrediction(BehaviourOf(last.ret[n]).scores).label)

(***************************************************************************)
(* Unavailable evidence                                                    *)
(***************************************************************************)
ScoringCalled == "op" \in DOMAIN last /\ last.op = "calculate_credibility_score"

\* The prediction of a failed classifier: label Unknown, or no label at all
FailedPrediction(prediction) ==
    "label" \notin DOMAIN prediction \/ prediction.label = S_Unknown

\* No usable fact-check evidence: no result at all, or only results whose
\* verdict is missing or not recognised
NoVerdicts(results) ==
    \A i \in DOMAIN results :
        \/ "verdict" \notin DOMAIN results[i]
        \/ results[i].verdict \in {V_MostlyTrue, V_ApiKey}

Neutral == RInt(50)

FileUnusable ==
    /\ last.op \in {"__init__", "lookup"}
    /\ last.file.kind \in {"missing", "unreadable", "malformed"}

\* C17: constructing the scorer never fails because of the reputation file:
\* a missing file, an unreadable path or malformed content each leave the
\* scorer with an empty table, a mapping with no entries, so that every
\* later domain lookup resolves to 0.5.
C17_UnusableFileGivesEmptyTable ==
    FileUnusable =>
        /\ domain_reputation.kind = "dict"
        /\ DOMAIN domain_reputation.map = {}
        /\ last.op = "lookup" =>
               /\ ~last.outcome.raised
               /\ last.outcome.value = Half

\* A scorer constructed from malformed content has looked up, twice, a
\* domain that the sample table knows
C17_Witness ==
    /\ last.op = "lookup"
    /\ last.file.kind = "malformed"
    /\ last.lookups = 2
    /\ last.domain = D_www_Example
    /\ last.outcome = Returned(Half)

(***************************************************************************)
(* The classifier                                                          *)
(***************************************************************************)
Predicted == last.op = "predict"

\* C18: predict fails closed: when processing fails at any step
\* (truncation, inference or result handling) predict returns a prediction
\* with label Unknown and confidence 0.0 and raises nothing.
C18_PredictFailsClosed ==
    (Predicted /\ ClassificationFailed(last.behaviour)) =>
        /\ ~last.outcome.raised
        /\ last.outcome.value.label = S_Unknown
        /\ last.outcome.value.confidence = Zero

(***************************************************************************)
(* The fact-check source                                                   *)
(***************************************************************************)
ClaimsChecked == last.op = "check_claims"

\* The results of the queries that were answered, in the order of the
\* queries; a query that failed contributes nothing
RECURSIVE AnsweredResults(_, _, _)
AnsweredResults(claims, responses, i) ==
    IF i > Len(claims) \/ i > Len(responses) THEN <<>>
    ELSE (IF responses[i].kind = "ok"
          THEN query_google_factcheck(claims[i], responses[i]).value
          ELSE <<>>) \o AnsweredResults(claims, responses, i + 1)

\* What check_claims returns by the first three parts of C19: one mock
\* entry without an API key; with the adapter enabled an empty list when
\* the call as a whole fails, else the results of the answered queries
ReturnsListOfResults ==
    ClaimsChecked =>
        /\ last.adapter.api_key = None =>
               /\ Len(last.ret) = 1
               /\ "mock" \in DOMAIN last.ret[1] /\ last.ret[1].mock
        /\ adapter_enabled(last.adapter) =>
               IF last.text = None THEN last.ret = <<>>
               ELSE LET claims == Take(extract_claims(last.text).value, last.max_claims)
                    IN  last.ret = Take(AnsweredResults(claims, last.responses, 1),
                                        last.max_claims)

LabelStandardized == last.op = "standardize_label"

KnownClasses == {S_Fake, S_Real, S_Biased, S_Satire}

\* The class a label is a synonym of, whatever its casing; <<>> if none
ClassOfSynonym(label) ==
    LET word == Lower(label)
    IN  IF word \in LabelsFake THEN S_Fake
        ELSE IF word \in LabelsReal THEN S_Real
        ELSE IF word \in LabelsBiased THEN S_Biased
        ELSE IF word \in LabelsSatire THEN S_Satire
        ELSE <<>>

\* C20: label normalisation is total and case-insensitive: the synonyms of
\* a class map to the class, every other string maps to its capitalised
\* form, which is never one of the four class names, and normalising a
\* normalised label returns it unchanged.
C20_NormalisationIdempotent ==
    LabelStandardized =>
        /\ \A variant \in CaseVariants(Lower(last.label)) :
               standardize_label(variant) = last.ret
        /\ IF ClassOfSynonym(last.label) # <<>>
           THEN last.ret = ClassOfSynonym(last.label)
           ELSE /\ last.ret = Capitalize(Lower(last.label))
                /\ last.ret \notin KnownClasses
        /\ last.pass = 2 => last.ret = last.label

(***************************************************************************)
(* The source_reputation field                                             *)
(***************************************************************************)
DomainSupplied == last.domain # None /\ last.domain # <<>>

\* The reputation the table holds for the domain in lower case and without
\* a leading "www.", 0.5 if it holds none
RawSourceScore(domain) ==
    LET lowered == Lower(domain)
        cleaned == IF Len(lowered) >= 4 /\ SubSeq(lowered, 1, 4) = S_www
                   THEN SubSeq(lowered, 5, Len(lowered)) ELSE lowered
    IN  IF cleaned \in DOMAIN domain_reputation.map
        THEN domain_reputation.map[cleaned] ELSE Half

\* C16: the source_reputation field of the scoring result is the raw
\* source sub-score, unweighted and unrounded, whenever a domain was
\* supplied (0.5 for a domain absent from the table) and null when none
\* was; /predict always reports source and source_reputation as null.
C16_SourceReputationField ==
    /\ Scored =>
           IF DomainSupplied
           THEN last.outcome.value.source_reputation = RawSourceScore(last.domain)
           ELSE last.outcome.value.source_reputation = NoneNum
    /\ (last.op = "predict_text" /\ last.response.status = 200) =>
           /\ last.response.body.source = None
           /\ last.response.body.source_reputation = NoneNum

\* A scoring call for a domain the table holds with reputation 1 under the
\* default source weight 0.2
C16_Witness ==
    /\ Scored
    /\ last.domain = D_www_Example
    /\ domain_reputation.map = SampleTable
    /\ last.outcome.value.source_reputation = One
    /\ last.outcome.value.breakdown.source_score = RInt(100)

\* A request to /predict answered with a result
PredictAnswered ==
    /\ last.op = "predict_text"
    /\ last.response.status = 200
    /\ last.response.body.fact_check # <<>>
    /\ last.response.body.highlights # <<>>

(***************************************************************************)
(* Scoring of texts classified Fake                                        *)
(***************************************************************************)
\* A scoring call with the default weights, no domain and a neutral
\* fact-check sub-score for a text classified Fake with confidence above 0.5
ConfidentFakeScored ==
    /\ Scored
    /\ weights = DefaultWeights
    /\ last.domain \in {None, <<>>}
    /\ calculate_factcheck_score(last.fact_check_results) = Half
    /\ last.model_prediction.label = S_Fake
    /\ RLt(Half, last.model_prediction.confidence)

\* C21 as stated: with the default weights, no domain and a neutral
\* fact-check sub-score, a text classified Fake with confidence above 0.5
\* gets a credibility_score below 50, and exactly 30.0 for confidence 0.9.
C21_Original ==
    ConfidentFakeScored =>
        /\ RLt(LastScore, RInt(50))
        /\ last.model_prediction.confidence = Rat(9, 10) => LastScore = RInt(30)

\* C21, amended: such a text gets a credibility_score of at most 50.0,
\* below 50 whenever the confidence is at least 0.51, and exactly 30.0 for
\* confidence 0.9.
C21_ConfidentFakeAtMostFifty ==
    ConfidentFakeScored =>
        /\ RLe(LastScore, RInt(50))
        /\ RLe(Rat(51, 100), last.model_prediction.confidence) =>
               RLt(LastScore, RInt(50))
        /\ last.model_prediction.confidence = Rat(9, 10) => LastScore = RInt(30)

\* The mock engine classified a text Fake with confidence 0.9 (three fake
\* indicators), the fact-check list was the mock one, the score is 30.0
C21_Witness ==
    /\ ConfidentFakeScored
    /\ "text_length" \in DOMAIN last.model_prediction
    /\ last.model_prediction.confidence = Rat(9, 10)
    /\ last.fact_check_results = mock_fact_check_response
    /\ LastScore = RInt(30)

(***************************************************************************)
(* The two endpoints and the scraper                                       *)
(***************************************************************************)
TextRequested == last.op = "predict_text"
UrlRequested  == last.op = "predict_url"

\* A URL with a scheme and a host
WellFormedUrl(url) == ~url.raises /\ url.scheme # <<>> /\ url.netloc # <<>>

\* C22: a /predict request with a text that is empty or shorter than 10
\* characters, and a /predict-url request with a url that is not a
\* well-formed URL, is answered 422 and none of classifier, fact-checker,
\* scraper and scorer is invoked.
C22_InvalidRequestRejected ==
    /\ (TextRequested /\ Len(last.text) < 10) =>
           last.response.status = 422 /\ last.response.invoked = {}
    /\ (UrlRequested /\ ~WellFormedUrl(last.url)) =>
           last.response.status = 422 /\ last.response.invoked = {}

\* A /predict request with a text of 9 characters, answered 422
C22_Witness ==
    /\ TextRequested
    /\ last.text = T_NineOne
    /\ last.response.status = 422
    /\ last.response.invoked = {}

\* The fetcher reported an error or returned no text
FetchFailed(fetch) ==
    fetch.kind # "page" \/ fetch.text = None \/ fetch.text = <<>>

\* C23: for a request with a validly formatted URL /predict-url answers 200
\* or 400 and nothing else: 400 when the fetcher reports an error or
\* returns no text, without classifier, fact-checker or scorer being
\* invoked, and 200 otherwise.
C23_UrlAnswers200Or400 ==
    (UrlRequested /\ HttpUrlValid(last.url)) =>
        IF FetchFailed(last.fetch)
        THEN last.response.status = 400 /\ last.response.invoked = {"scraper"}
        ELSE last.response.status = 200

\* The text a request was about, and the request answered with a result
RequestText == IF TextRequested THEN last.text ELSE last.fetch.text

Answered == (TextRequested \/ UrlRequested) /\ last.response.status = 200

\* C27: the highlights of a response are the first min(5, n) entries of the
\* analyze_sentences output in their order: never more than 5, no sentence
\* left out has a strictly higher suspicion_score than one included, and
\* sentences_analyzed counts all n analysed sentences.
C27_HighlightsAreTopFive ==
    Answered =>
        LET analysis   == analyze_sentences(RequestText, last.behaviours)
            n          == NumAnalysed(RequestText)
            highlights == last.response.body.highlights
        IN  /\ Len(analysis) = n
            /\ Len(highlights) = (IF n < 5 THEN n ELSE 5)
            /\ \A i \in DOMAIN highlights : highlights[i] = analysis[i]
            /\ \A j \in (Len(highlights) + 1)..n : \A i \in DOMAIN highlights :
                   RLe(analysis[j].suspicion_score, highlights[i].suspicion_score)
            /\ last.response.body.metadata.sentences_analyzed = n

\* A /predict-url response for an article of 7 analysed sentences: 5
\* highlights, the first more suspicious than the last
C27_Witness ==
    /\ UrlRequested
    /\ last.response.status = 200
    /\ last.response.body.metadata.sentences_analyzed = 7
    /\ Len(last.response.body.highlights) = 5
    /\ RLt(last.response.body.highlights[5].suspicion_score,
           last.response.body.highlights[1].suspicion_score)

ArticleExtracted == last.op = "extract_article"

\* C29: a result of extract_article has error = null exactly when text is
\* non-null: on every failure path (invalid URL, fetch failure, no content,
\* unexpected exception) text is null and error is not, on success error is
\* null; a domain that is returned is the host in lower case with one
\* leading "www." stripped.
C29_ErrorExactlyWithoutText ==
    ArticleExtracted =>
        LET ret     == last.ret
            failure == \/ ~WellFormedUrl(last.url)
                       \/ FetchFailed(last.fetch)
            lowered == Lower(last.url.netloc)
        IN  /\ (ret.error = None) <=> (ret.text # None)
            /\ failure => (ret.text = None /\ ret.error # None /\ ret.error # <<>>)
            /\ ~failure => (ret.error = None /\ ret.text = last.fetch.text)
            /\ ret.domain # None =>
                   ret.domain = (IF Len(lowered) >= 4 /\ SubSeq(lowered, 1, 4) = S_www
                                 THEN SubSeq(lowered, 5, Len(lowered)) ELSE lowered)

\* An article extracted from a host in upper case with a leading "www."
C29_Witness ==
    /\ ArticleExtracted
    /\ last.url.netloc = D_WWW_EXAMPLE
    /\ last.ret.error = None
    /\ last.ret.text # None
    /\ last.ret.domain = D_example

(***************************************************************************)
(* Side effects of the scorer                                              *)
(***************************************************************************)
\* A step that is a call of calculate_credibility_score
ScoringStep == last'.op = "calculate_credibility_score"

\* C24: calculate_credibility_score changes neither the weights nor the
\* Reputation Table and is deterministic (the call repeated with the same
\* inputs, no update_weights in between, returns the same result); no
\* operation of the constructed scorer changes the Reputation Table.
C24_ScoringIsPure ==
    [][ /\ ScoringStep => (weights' = weights /\ domain_reputation' = domain_reputation)
        /\ ScoringStep =>
               last'.outcome = calculate_credibility_score(
                   last'.model_prediction, last'.fact_check_results, last'.domain)
        /\ (ScoringStep /\ last.op = "calculate_credibility_score"
              /\ last'.model_prediction = last.model_prediction
              /\ last'.fact_check_results = last.fact_check_results
              /\ last'.domain = last.domain) => last'.outcome = last.outcome
        /\ domain_reputation' = domain_reputation ]_vars

\* A scoring call for a domain the table does not hold, made after an
\* update of the weights
C24_Witness ==
    /\ Scored
    /\ nupd > 0
    /\ weights # DefaultWeights
    /\ domain_reputation.kind = "dict"
    /\ domain_reputation.map = SampleTable
    /\ last.domain = D_unknown_org

(***************************************************************************)
(* update_weights that fails, and the empty update                         *)
(***************************************************************************)
UpdateCalled == last.op = "update_weights"

\* C30: a call of update_weights that fails because its entries sum to zero
\* leaves the weights exactly as they were before the call, and a call with
\* no entries completes and leaves the weights unchanged.
C30_FailedUpdateKeepsWeights ==
    UpdateCalled =>
        /\ last.raised => weights = last.before
        /\ (DOMAIN last.new_weights # {} /\ SumValues(last.new_weights) = Zero)
              => (last.raised /\ weights = last.before)
        /\ DOMAIN last.new_weights = {} => (~last.raised /\ weights = last.before)

\* A failed update whose entries are not all zero, made on weights that an
\* earlier update had changed
C30_Witness ==
    /\ UpdateCalled
    /\ last.raised
    /\ \E k \in DOMAIN last.new_weights : last.new_weights[k] # Zero
    /\ last.before # DefaultWeights
    /\ weights = last.before

(***************************************************************************)
(* A result kept by its caller while the scorer goes on being used         *)
(***************************************************************************)
\* A call of calculate_credibility_score whose returned dict the caller
\* keeps: call holds the dict as returned (its weights_used entry is the
\* scorer's own dict, line 72) beside the weights the call read (lines 60-62)
KeepResult(model_prediction, fact_check_results, domain) ==
    LET outcome == calculate_credibility_score(
                       model_prediction, fact_check_results, domain)
    IN  /\ ~outcome.raised
        /\ last' = [op |-> "calculate_credibility_score",
                    model_prediction |-> model_prediction,
                    fact_check_results |-> fact_check_results,
                    domain |-> domain,
                    outcome |-> outcome]
        /\ call' = [pc |-> "kept", result |-> outcome.value, applied |-> weights]
        /\ UNCHANGED <<weights, domain_reputation, nupd>>

NextKeptResult ==
    \/ \E p \in SamplePredictions, d \in {None, D_example} :
           KeepResult(p, <<>>, d)
    \/ \E nw \in SampleUpdates : UpdateWeights(nw)

SpecKeptResult == InitWeights /\ [][NextKeptResult]_vars

\* What result['weights_used'] reads as in the current state: the entry is a
\* reference to self.weights, which update_weights changes in place
WeightsUsed(result) ==
    IF result.weights_used = "self.weights" THEN weights ELSE result.weights_used

ResultKept == call.pc = "kept"

\* C26: weights_used of a returned result equals the weights that were
\* applied to compute that result, also after later calls of update_weights.
C26_WeightsUsedAreApplied ==
    ResultKept => WeightsUsed(call.result) = call.applied

\* The part that holds: weights_used equals the applied weights for as long
\* as no update_weights has changed the weights since the call
C26_WeightsUsedUntilUpdate ==
    (ResultKept /\ weights = call.applied) => WeightsUsed(call.result) = call.applied

\* A kept result, and an update of the weights made after it was returned
C26_Witness ==
    /\ ResultKept
    /\ last.op = "update_weights"
    /\ ~last.raised
    /\ weights # call.applied

(***************************************************************************)
(* config.py: the weights read at startup from the environment and the     *)
(* configuration file                                                      *)
(***************************************************************************)
\* What yaml.safe_load gives: None for an empty document, a dict for a
\* mapping, a number or a string for a scalar
YNull   == [t |-> "null"]
YMap(m) == [t |-> "map", m |-> m]
YNum(v) == [t |-> "num", v |-> v]
YStr(v) == [t |-> "str", v |-> v]

DecimalDigits == <<"0", "1", "2", "3", "4", "5", "6", "7", "8", "9">>
DigitValue(c) == (CHOOSE n \in DOMAIN DecimalDigits : DecimalDigits[n] = c) - 1

RECURSIVE DigitsValue(_)
DigitsValue(s) ==
    IF s = <<>> THEN 0
    ELSE DigitsValue(SubSeq(s, 1, Len(s) - 1)) * 10 + DigitValue(s[Len(s)])

RECURSIVE Pow10(_)
Pow10(n) == IF n = 0 THEN 1 ELSE 10 * Pow10(n - 1)

\* float(s) of a string in plain decimal notation (digits with at most one
\* point); every other string of the input sets raises ValueError
float_of_str(s) ==
    LET points == {j \in DOMAIN s : s[j] = "."}
        plain  == /\ \A j \in DOMAIN s : IsDigit(s[j]) \/ s[j] = "."
                  /\ Cardinality(points) <= 1
                  /\ \E j \in DOMAIN s : IsDigit(s[j])
    IN  IF ~plain THEN Raised("ValueError")
        ELSE LET places == IF points = {} THEN 0
                           ELSE Len(s) - (CHOOSE j \in points : TRUE)
             IN  Returned(Rat(DigitsValue(SelectSeq(s, IsDigit)), Pow10(places)))

\* float(x): a number as it is, a string parsed, None a TypeError
float_of(x) ==
    IF x.t = "num" THEN Returned(x.v)
    ELSE IF x.t = "str" THEN float_of_str(x.v)
    ELSE Raised("TypeError")

\* os.getenv(name, default): the variable's string when it is set
getenv(env, name, default) ==
    IF name \in DOMAIN env THEN YStr(env[name]) ELSE default

\* The environment variable that overrides a weight (lines 44-46)
WeightEnvName(k) ==
    IF k = "model_confidence" THEN "WEIGHT_MODEL"
    ELSE IF k = "fact_check_evidence" THEN "WEIGHT_FACTCHECK"
    ELSE "WEIGHT_SOURCE"

\* One of lines 44-46: float(os.getenv(NAME, weights.get(k, default)))
load_weight(env, file_weights, k) ==
    float_of(getenv(env, WeightEnvName(k), Get(file_weights, k, YNum(DefaultWeights[k]))))

\* Config._load_config and Config.scoring_weights: the weights handed to the
\* scorer, or the exception that ends the import of config.py.  The model
\* and factcheck sections of the file are taken to be absent or mappings.
load_config(file, env) ==
    LET config == IF file.kind = "missing" THEN YMap(<<>>) ELSE file.value
    IN  IF config.t # "map" THEN Raised("AttributeError")
        ELSE LET scoring == Get(config.m, "scoring", YMap(<<>>))
             IN  IF scoring.t # "map" THEN Raised("AttributeError")
                 ELSE LET file_weights == Get(scoring.m, "weights", YMap(<<>>))
                      IN  IF file_weights.t # "map" THEN Raised("AttributeError")
                          ELSE LET m == load_weight(env, file_weights.m, "model_confidence")
                                   f == load_weight(env, file_weights.m, "fact_check_evidence")
                                   r == load_weight(env, file_weights.m, "source_reputation")
                               IN  IF m.raised THEN m
                                   ELSE IF f.raised THEN f
                                   ELSE IF r.raised THEN r
                                   ELSE Returned([model_confidence |-> m.value,
                                                  fact_check_evidence |-> f.value,
                                                  source_reputation |-> r.value])

E_0_7 == <<"0", ".", "7">>
E_1   == <<"1">>
E_abc == <<"a", "b", "c">>
Y_25  == <<".", "2", "5">>

\* The environment: each of the three variables unset or set to a string
EnvStrings == {E_0_7, E_1, E_abc}
Environments ==
    UNION {[ns -> EnvStrings] :
              ns \in SUBSET {"WEIGHT_MODEL", "WEIGHT_FACTCHECK", "WEIGHT_SOURCE"}}

\* The weights mapping of a configuration file: each weight absent, a
\* number, a string or nothing after the key
FileWeightValues == {YNum(Rat(2, 5)), YStr(Y_25), YNull}
FileWeightMaps ==
    UNION {[ks -> FileWeightValues] : ks \in SUBSET WeightKeys}

\* The configuration file: absent, empty, without a scoring section, with
\* an empty scoring section or weights entry, or with a weights mapping
ConfigFiles ==
    { [kind |-> "missing"],
      [kind |-> "yaml", value |-> YNull],
      [kind |-> "yaml", value |-> YMap(<<>>)],
      [kind |-> "yaml", value |-> YMap("app" :> YMap(<<>>))],
      [kind |-> "yaml", value |-> YMap("scoring" :> YNull)],
      [kind |-> "yaml", value |-> YMap("scoring" :> YMap(<<>>))],
      [kind |-> "yaml", value |-> YMap("scoring" :> YMap("weights" :> YNull))] }
    \cup { [kind |-> "yaml", value |-> YMap("scoring" :> YMap("weights" :> YMap(m)))] :
              m \in FileWeightMaps }

\* Scorers constructed with a weight set from which keys are missing
PartialWeights ==
    UNION {[ks -> {Half, Rat(1, 5)}] : ks \in SUBSET WeightKeys}

\* Startup, once in a process: config.py is imported, and the scorer is
\* constructed with config.scoring_weights (main.py lines 62-65) when the
\* import succeeded
Startup(file, env) ==
    LET outcome == load_config(file, env)
    IN  /\ last = NoCall
        /\ weights' = IF outcome.raised THEN weights ELSE outcome.value
        /\ last' = [op |-> "startup", file |-> file, env |-> env, outcome |-> outcome]
        /\ UNCHANGED <<domain_reputation, nupd, call>>

\* CredibilityScorer.__init__ called with a weight set of the caller's
ConstructWith(weights_arg) ==
    /\ last = NoCall
    /\ weights' = weights_arg
    /\ last' = [op |-> "construct", weights_arg |-> weights_arg]
    /\ UNCHANGED <<domain_reputation, nupd, call>>

\* A scoring call on the scorer just constructed
ScoreConstructed(model_prediction, domain) ==
    /\ \/ last.op = "construct"
       \/ last.op = "startup" /\ ~last.outcome.raised
    /\ Calculate(model_prediction, <<>>, domain)

NextConfig ==
    \/ \E file \in ConfigFiles, env \in Environments : Startup(file, env)
    \/ \E w \in PartialWeights : ConstructWith(w)
    \/ \E p \in SamplePredictions, d \in {None, D_fake_news} : ScoreConstructed(p, d)

SpecConfig == InitWeights /\ [][NextConfig]_vars

StartedUp == last.op = "startup"

\* The weights mapping the file holds; empty when the file has none
WeightsInFile(file) ==
    IF file.kind = "missing" \/ file.value.t # "map" THEN <<>>
    ELSE LET scoring == Get(file.value.m, "scoring", YNull)
         IN  IF scoring.t # "map" THEN <<>>
             ELSE LET w == Get(scoring.m, "weights", YNull)
                  IN  IF w.t # "map" THEN <<>> ELSE w.m

\* The weight the precedence environment, file, default gives
WeightByPrecedence(file, env, k) ==
    IF WeightEnvName(k) \in DOMAIN env THEN float_of(YStr(env[WeightEnvName(k)])).value
    ELSE IF k \in DOMAIN WeightsInFile(file) THEN float_of(WeightsInFile(file)[k]).value
    ELSE DefaultWeights[k]

NothingSetsAWeight(file, env) ==
    DOMAIN env = {} /\ DOMAIN WeightsInFile(file) = {}

\* The scorer's weights follow the precedence whenever the startup completes
PrecedenceWhenLoaded ==
    (StartedUp /\ ~last.outcome.raised) =>
        \A k \in WeightKeys : weights[k] = WeightByPrecedence(last.file, last.env, k)

\* The fusion formula reads a missing weight as its default
MissingWeightIsDefault ==
    (Scored /\ ~last.outcome.raised) =>
        last.outcome.value.credibility_score =
            Round1(weighted_combination(
                calculate_model_score(last.model_prediction),
                calculate_factcheck_score(last.fact_check_results),
                calculate_source_score(last.domain).value,
                Get(weights, "model_confidence", DefaultWeights.model_confidence),
                Get(weights, "fact_check_evidence", DefaultWeights.fact_check_evidence),
                Get(weights, "source_reputation", DefaultWeights.source_reputation)))

\* C25: the weights are read at startup with the precedence environment
\* variable over configuration file over built-in default; when neither the
\* environment nor the file sets a weight they are 0.5, 0.3 and 0.2; and the
\* fusion formula applies the same defaults for a missing weight key.
C25_WeightsByPrecedence ==
    /\ PrecedenceWhenLoaded
    /\ (StartedUp /\ NothingSetsAWeight(last.file, last.env)) =>
           (~last.outcome.raised /\ weights = DefaultWeights)
    /\ MissingWeightIsDefault

\* The part that holds: precedence and defaults whenever the file, if there
\* is one, holds a mapping whose scoring section and weights entry are
\* absent or mappings
C25_WeightsByPrecedenceWhenLoaded ==
    /\ PrecedenceWhenLoaded
    /\ (StartedUp /\ NothingSetsAWeight(last.file, last.env) /\ ~last.outcome.raised) =>
           weights = DefaultWeights
    /\ MissingWeightIsDefault

\* A startup in which one weight comes from each of the three places
C25_Witness ==
    /\ StartedUp
    /\ ~last.outcome.raised
    /\ DOMAIN last.env = {"WEIGHT_MODEL"}
    /\ DOMAIN WeightsInFile(last.file) = {"model_confidence", "fact_check_evidence"}
    /\ weights = [model_confidence |-> Rat(7, 10), fact_check_evidence |-> Rat(1, 4),
                  source_reputation |-> Rat(1, 5)]

\* A scoring call on a scorer whose weight set lacks a key
C25_WitnessMissingKey ==
    /\ Scored
    /\ ~last.outcome.raised
    /\ DOMAIN weights = {"source_reputation"}

\* A startup with an empty configuration file and no weight variable set
C25_WitnessEmptyFile ==
    /\ StartedUp
    /\ last.file = [kind |-> "yaml", value |-> YNull]
    /\ DOMAIN last.env = {}
    /\ last.outcome.raised

(***************************************************************************)
(* main.py: the import of the application module, statement by statement   *)
(***************************************************************************)
\* The line of main.py at which a module-level name is first bound
MainBindings ==
    [FastAPI |-> 3, HTTPException |-> 3, status |-> 3, CORSMiddleware |-> 4,
     JSONResponse |-> 5, logging |-> 6, sys |-> 7, asynccontextmanager |-> 8,
     TextPredictionRequest |-> 11, PredictionResponse |-> 11, config |-> 15,
     FakeNewsDetector |-> 17, FactCheckAdapter |-> 21, CredibilityScorer |-> 22,
     ArticleScraper |-> 23, logger |-> 33, nlp_detector |-> 36, lifespan |-> 43]

\* The names bound once the statements above a line have run
BoundBefore(line) == {name \in DOMAIN MainBindings : MainBindings[name] < line}

\* The packages nlp_engine.py imports at its top (lines 3 and 5)
ClassifierPackages == {"transformers", "torch"}

\* The import of main.py begins: lines 3-14 run in an interpreter in which
\* some of the classifier's packages are installed
BeginImport(installed) ==
    /\ last = NoCall
    /\ call = Idle
    /\ call' = [pc |-> "config", installed |-> installed, bound |-> BoundBefore(15),
                detector |-> "none"]
    /\ UNCHANGED <<weights, domain_reputation, last, nupd>>

\* An exception leaves main.py: the import of the application module fails
ImportFails(exc) ==
    /\ call' = [pc |-> "failed"] @@ call
    /\ last' = [op |-> "import main", outcome |-> Raised(exc)]

\* line 15: from .config import config
ImportConfig(file, env) ==
    /\ call.pc = "config"
    /\ LET outcome == load_config(file, env)
       IN  IF outcome.raised THEN ImportFails(outcome.exc)
           ELSE /\ call' = [pc |-> "try", bound |-> BoundBefore(16),
                            scoring_weights |-> outcome.value] @@ call
                /\ last' = last
    /\ UNCHANGED <<weights, domain_reputation, nupd>>

\* lines 16-17: try: from .nlp_engine import FakeNewsDetector
ImportClassifier ==
    /\ call.pc = "try"
    /\ call' = IF ClassifierPackages \subseteq call.installed
               THEN [pc |-> "rest", detector |-> "nlp_engine",
                     bound |-> call.bound \cup {"FakeNewsDetector"}] @@ call
               ELSE [pc |-> "except"] @@ call
    /\ UNCHANGED <<weights, domain_reputation, last, nupd>>

\* lines 18-20: except ImportError: logger.warning(...), then
\* from .nlp_engine_mock import FakeNewsDetector
HandleImportError ==
    /\ call.pc = "except"
    /\ IF "logger" \in call.bound
       THEN /\ call' = [pc |-> "rest", detector |-> "nlp_engine_mock",
                        bound |-> call.bound \cup {"FakeNewsDetector"}] @@ call
            /\ last' = last
       ELSE ImportFails("NameError")
    /\ UNCHANGED <<weights, domain_reputation, nupd>>

\* lines 21 to the end: the remaining imports, the logger, the application
FinishImport ==
    /\ call.pc = "rest"
    /\ call' = [pc |-> "done", bound |-> DOMAIN MainBindings] @@ call
    /\ last' = [op |-> "import main", outcome |-> Returned(call.detector)]
    /\ UNCHANGED <<weights, domain_reputation, nupd>>

NextImport ==
    \/ \E installed \in SUBSET ClassifierPackages : BeginImport(installed)
    \/ \E file \in ConfigFiles, env \in Environments : ImportConfig(file, env)
    \/ ImportClassifier
    \/ HandleImportError
    \/ FinishImport

SpecImport == InitWeights /\ [][NextImport]_vars

ImportEnded == call.pc \in {"done", "failed"}

\* The import got as far as the classifier, whose module cannot be imported
ClassifierMissing ==
    /\ call.pc \notin {"idle", "config", "try"}
    /\ "scoring_weights" \in DOMAIN call
    /\ ~(ClassifierPackages \subseteq call.installed)

\* C28: when the transformer-based classifier module cannot be imported,
\* loading the application module completes without error and the
\* application uses the mock FakeNewsDetector.
C28_FallsBackToMock ==
    (ImportEnded /\ ClassifierMissing) =>
        (call.pc = "done" /\ call.detector = "nlp_engine_mock")

\* What the import does: with the classifier's packages installed it
\* completes with the transformer-based detector; without them it ends in
\* the NameError of line 19
C28_ImportOutcome ==
    (ImportEnded /\ "scoring_weights" \in DOMAIN call) =>
        IF ClassifierPackages \subseteq call.installed
        THEN call.pc = "done" /\ call.detector = "nlp_engine"
        ELSE call.pc = "failed" /\ last.outcome = Raised("NameError")

\* The import has ended where the classifier's packages are not installed
C28_Witness == ImportEnded /\ ClassifierMissing /\ call.installed = {}

====
